---------------------------- MODULE Spec2Model ----------------------------
(***************************************************************************)
(* A model of the Monte Carlo pricing kernel of Structured-Product-Pricing *)
(* (Python).  Each subsystem is a state machine over its own variables:    *)
(*                                                                         *)
(*   SpecBarrier    barrier option constructors and payoffs                *)
(*   SpecAggregate  PricingResults.get_aggregated_results                  *)
(*   SpecMC         MCPricingEngine.get_results / get_result and Greeks    *)
(*   SpecCallable   CallableMCPricingEngineBis.get_price / get_coupon      *)
(*   SpecHeston     HestonEulerScheme and EulerSchemeBis two-factor paths  *)
(*                                                                         *)
(* Floating point values are fixed-point integers.  Units:                 *)
(*   time         months (1/12 year)                                       *)
(*   rates        1/10000 (basis points); the curve holds percentages in   *)
(*                1/100 of a percent, so get_rate's /100 keeps the number  *)
(*   vols         percent                                                  *)
(*   variances    1/10000 (so that a 20 percent vol is the variance 400)   *)
(*   discount factors and engine prices   1/10000                          *)
(* Division is Div, which rounds toward zero as x/y = -((-x)/y) does in    *)
(* IEEE arithmetic, so that negating an operand negates the quotient.      *)
(***************************************************************************)
EXTENDS Integers, Sequences, FiniteSets, TLC

VARIABLES
    \* ---- barrier options (Kernel/Products/Options/barrier_options.py)
    options,        \* the two most recently constructed barrier options
    path,           \* the price path handed to payoff
    payoffs,        \* payoff of each constructed option on path
    error,          \* the exception raised by the last constructor call
    \* ---- PricingResults.get_aggregated_results (utils/pricing_results.py)
    results,        \* the list of leg results handed to the aggregation
    results_in,     \* the list as it was when the aggregation was called
    aggregated,     \* the PricingResults the aggregation returned
    \* ---- HestonEulerScheme / EulerSchemeBis two-factor simulation
    scheme,         \* the scheme object: class, process, nb_paths, seed
    W,              \* the pair of increment matrices (W1, W2) in use
    S_paths,        \* the asset array S: S_paths[p][k + 1] is path p at step k
    V_paths,        \* the variance array V, stored like S_paths
    step,           \* the loop index i of the next step to simulate
    nan,            \* TRUE once a square root of a negative number was taken
    hpc,            \* position in simulate_paths: "start", "loop", "done"
    \* ---- MCPricingEngine (kernel/models/pricing_engines/mc_pricing_engine.py)
    market,         \* self.market, the Market the engine was built with
    market_in,      \* the Market as it was when the engine was built
    settings,       \* nb_paths, nb_steps, random_seed, enable_greeks, model
    derivative,     \* the argument of get_results: an option or a strategy
    heap,           \* the process objects built so far; an object is its index
    frame,          \* the locals of the running get_result
    strat_results,  \* get_results' list of the legs' results
    leg,            \* index of the leg get_results is pricing
    mc_result,      \* the PricingResults get_results returned
    runs,           \* every _get_price call so far: its inputs and outputs
    mpc,            \* position in get_results / get_result
    \* ---- CallableMCPricingEngineBis (callable_mc_pricing_engine_bis.py); the
    \*      engine's market and settings are the variables above
    product,        \* the autocall handed to get_results
    stochastic_process, \* self.stochastic_process
    max_iter,       \* get_coupon's parameter max_iter
    lower_bound,    \* get_coupon's bracket, in 1/CouponScale
    upper_bound,
    mid_coupon,     \* the last midpoint, None before the first
    iter,           \* the number of iterations of get_coupon's loop so far
    tried,          \* the midpoints tried and the price of each
    cashflows,      \* per path of the last get_price: payoff, call index, discounting
    call_result,    \* the PricingResults get_results returned
    cpc,            \* position in get_results / get_coupon
    \* ---- StochasticProcess constructors (kernel/models/stochastic_processes)
    proc,           \* the process the last constructor call returned, None when it raised
    proc_args,      \* the arguments of the last constructor call
    proc_error,     \* the exception the last constructor call raised
    \* ---- product constructors (kernel/products)
    prod,           \* the product the last constructor call returned, None when it raised
    prod_args,      \* the class and arguments of the last constructor call
    prod_error,     \* the exception the last constructor call raised
    \* ---- rate interpolators and volatility surfaces (kernel/market_data)
    interp,         \* the rate interpolator object, None before it is constructed
    svi,            \* the SVIVolatilitySurface object
    ssvi,           \* the SSVIVolatilitySurface object
    local,          \* the LocalVolatilitySurface built on svi, None before
    nb_slices,      \* the number of distinct maturities in option_data
    cal_round,      \* the number of calibration runs so far
    completed,      \* per object, whether a calibration of it has returned normally
    svi_failed,     \* whether the last calibrate_surface of svi raised
    last_call,      \* the last call: operation, exception raised, value returned
    \* ---- Market loaders (kernel/market_data/market.py)
    load,           \* the last loader call: its table, exception, message and steps, None before
    \* ---- maturity strings (Market._convert_maturities)
    maturity_str,   \* the string passed to _convert_maturities, None before
    converted,      \* the outcome: exception, or the year fraction num/den
    \* ---- interest rate swap (kernel/products/rate/vanilla_swap.py)
    swap,           \* the InterestRateSwap object with its market, None before construction
    swap_calls,     \* the number of calculate calls made on it
    swap_ret,       \* the outcome of the last calculate: exception, or (price, fixed_rate)
    swap_args,      \* the arguments the swap was constructed with
    \* ---- coupon bond (kernel/products/rate/bond.py)
    bond,           \* the CouponBond object, None before construction or when it raised
    bond_error,     \* the exception of the constructor, None when it returned
    bond_ret,       \* the outcome of calculate: exception, or (price, ytm)
    \* ---- local volatility (kernel/market_data/volatility_surface/local_surface.py)
    dupire_args,    \* the derivatives, rate and strike of a get_volatility call, None before
    dupire_ret,     \* the value get_volatility returned, None before
    \* ---- option strategies (kernel/products/options_strategies)
    strat,          \* the strategy object with its constructor arguments, None before
    strat_payoff,   \* the path and the value of the last payoff call, None before
    \* ---- the American / Bermudan Monte-Carlo engine
    lsm,            \* the inputs of the _get_price call running (derivative, market, nb_steps, paths)
    lsm_t,          \* the loop variable t of the backward induction
    CF,             \* the cashflow of every path
    decided,        \* the indices t that passed the line-53 test, in order
    lsm_pc,         \* idle, loop or done
    lsm_price,      \* the returned price
    \* ---- a get_stochastic_process call on its own
    gsp,            \* the last get_stochastic_process call: its derivative, K and outcome
    \* ---- CouponBond.accrued_interest on calendar dates
    cbond,          \* a CouponBond on calendar dates: its dates, coupons, frequency, convention
    accrued         \* the last accrued_interest() and the discounting times built on it

barrierVars == <<options, path, payoffs, error>>

aggVars == <<results, results_in, aggregated>>

hestonVars == <<scheme, W, S_paths, V_paths, step, nan, hpc>>

mcVars == <<market, market_in, settings, derivative, heap, frame,
            strat_results, leg, mc_result, runs, mpc>>

callVars == <<product, stochastic_process, max_iter, lower_bound, upper_bound,
              mid_coupon, iter, tried, cashflows, call_result, cpc>>

procVars == <<proc, proc_args, proc_error>>

prodVars == <<prod, prod_args, prod_error>>

calVars == <<interp, svi, ssvi, local, nb_slices, cal_round, completed, svi_failed, last_call>>

loadVars == <<load>>

convVars == <<maturity_str, converted>>

swapVars == <<swap, swap_calls, swap_ret, swap_args>>

bondVars == <<bond, bond_error, bond_ret>>

dupireVars == <<dupire_args, dupire_ret>>

stratVars == <<strat, strat_payoff>>

amerVars == <<lsm, lsm_t, CF, decided, lsm_pc, lsm_price>>

gspVars == <<gsp>>

accVars == <<cbond, accrued>>

vars == <<barrierVars, aggVars, hestonVars, mcVars, callVars, procVars, prodVars, calVars, loadVars, convVars, swapVars, bondVars, dupireVars, stratVars, amerVars, gspVars, accVars>>

notBarrier == <<aggVars, hestonVars, mcVars, callVars, procVars, prodVars, calVars, loadVars, convVars, swapVars, bondVars, dupireVars, stratVars, amerVars, gspVars, accVars>>

notAgg == <<barrierVars, hestonVars, mcVars, callVars, procVars, prodVars, calVars, loadVars, convVars, swapVars, bondVars, dupireVars, stratVars, amerVars, gspVars, accVars>>

notHeston == <<barrierVars, aggVars, mcVars, callVars, procVars, prodVars, calVars, loadVars, convVars, swapVars, bondVars, dupireVars, stratVars, amerVars, gspVars, accVars>>

notMC == <<barrierVars, aggVars, hestonVars, callVars, procVars, prodVars, calVars, loadVars, convVars, swapVars, bondVars, dupireVars, stratVars, amerVars, gspVars, accVars>>

notCall == <<barrierVars, aggVars, hestonVars, mcVars, procVars, prodVars, calVars, loadVars, convVars, swapVars, bondVars, dupireVars, stratVars, amerVars, gspVars, accVars>>

notProc == <<barrierVars, aggVars, hestonVars, mcVars, callVars, prodVars, calVars, loadVars, convVars, swapVars, bondVars, dupireVars, stratVars, amerVars, gspVars, accVars>>

notProd == <<barrierVars, aggVars, hestonVars, mcVars, callVars, procVars, calVars, loadVars, convVars, swapVars, bondVars, dupireVars, stratVars, amerVars, gspVars, accVars>>

notCal == <<barrierVars, aggVars, hestonVars, mcVars, callVars, procVars, prodVars, loadVars, convVars, swapVars, bondVars, dupireVars, stratVars, amerVars, gspVars, accVars>>

notLoad == <<barrierVars, aggVars, hestonVars, mcVars, callVars, procVars, prodVars, calVars, convVars, swapVars, bondVars, dupireVars, stratVars, amerVars, gspVars, accVars>>

notConv == <<barrierVars, aggVars, hestonVars, mcVars, callVars, procVars, prodVars, calVars, loadVars, swapVars, bondVars, dupireVars, stratVars, amerVars, gspVars, accVars>>

notSwap == <<barrierVars, aggVars, hestonVars, mcVars, callVars, procVars, prodVars, calVars, loadVars, convVars, bondVars, dupireVars, stratVars, amerVars, gspVars, accVars>>

notBond == <<barrierVars, aggVars, hestonVars, mcVars, callVars, procVars, prodVars, calVars, loadVars, convVars, swapVars, dupireVars, stratVars, amerVars, gspVars, accVars>>

notDupire == <<barrierVars, aggVars, hestonVars, mcVars, callVars, procVars, prodVars, calVars, loadVars, convVars, swapVars, bondVars, stratVars, amerVars, gspVars, accVars>>

notStrat == <<barrierVars, aggVars, hestonVars, mcVars, callVars, procVars, prodVars, calVars, loadVars, convVars, swapVars, bondVars, dupireVars, amerVars, gspVars, accVars>>

notAmer == <<barrierVars, aggVars, hestonVars, mcVars, callVars, procVars, prodVars, calVars, loadVars, convVars, swapVars, bondVars, dupireVars, stratVars, gspVars, accVars>>

notGsp == <<barrierVars, aggVars, hestonVars, mcVars, callVars, procVars, prodVars, calVars, loadVars, convVars, swapVars, bondVars, dupireVars, stratVars, amerVars, accVars>>

notAcc == <<barrierVars, aggVars, hestonVars, mcVars, callVars, procVars, prodVars, calVars, loadVars, convVars, swapVars, bondVars, dupireVars, stratVars, amerVars, gspVars>>

(***************************************************************************)
(* Fixed-point arithmetic                                                  *)
(***************************************************************************)
Abs(x) == IF x < 0 THEN -x ELSE x

Max(a, b) == IF a >= b THEN a ELSE b

Min(a, b) == IF a <= b THEN a ELSE b

Div(a, b) ==
    IF a >= 0 THEN (IF b > 0 THEN a \div b ELSE -(a \div (-b)))
              ELSE (IF b > 0 THEN -((-a) \div b) ELSE (-a) \div (-b))

RECURSIVE SumSeq(_)
SumSeq(s) == IF s = <<>> THEN 0 ELSE Head(s) + SumSeq(Tail(s))

RECURSIVE MaxSeq(_)
MaxSeq(s) == IF Len(s) = 1 THEN s[1] ELSE Max(Head(s), MaxSeq(Tail(s)))

RECURSIVE MinSeq(_)
MinSeq(s) == IF Len(s) = 1 THEN s[1] ELSE Min(Head(s), MinSeq(Tail(s)))

Last(s) == s[Len(s)]

RECURSIVE SeqsUpTo(_, _)
SeqsUpTo(Values, n) ==
    IF n = 0 THEN {<<>>}
    ELSE LET shorter == SeqsUpTo(Values, n - 1)
         IN  shorter \cup {Append(s, x) : s \in shorter, x \in Values}

\* Optional values: None is the empty sequence, a present value v is <<v>>
None == <<>>

Some(v) == <<v>>

Get(o) == o[1]

(***************************************************************************)
(* Barrier options                                                         *)
(***************************************************************************)
MaxLen == 2
MaxPrice == 5

PathValues == 0..MaxPrice
Paths == SeqsUpTo(PathValues, MaxLen) \ {<<>>}
Strikes == {2, 3}
Barriers == 1..4
Maturities == {0, 12}

UpClasses == {"UpAndOutCallOption", "UpAndInCallOption",
              "UpAndInPutOption", "UpAndOutPutOption"}
DownClasses == {"DownAndInCallOption", "DownAndOutCallOption",
                "DownAndInPutOption", "DownAndOutPutOption"}
BarrierClasses == UpClasses \cup DownClasses
InClasses == {"UpAndInCallOption", "DownAndInCallOption",
              "UpAndInPutOption", "DownAndInPutOption"}
CallClasses == {"UpAndOutCallOption", "UpAndInCallOption",
                "DownAndInCallOption", "DownAndOutCallOption"}

Slots == {"first", "second"}

\* AbstractOption.__init__: a maturity <= 0 raises
AbstractOption_init_ok(maturity) == maturity > 0

\* UpBarrierOption.__init__ / DownBarrierOption.__init__: the barrier must be
\* on its side of the strike
BarrierOption_init_ok(cls, maturity, strike, barrier) ==
    /\ AbstractOption_init_ok(maturity)
    /\ cls \in UpClasses => ~(barrier <= strike)
    /\ cls \in DownClasses => ~(barrier >= strike)

\* UpBarrierOption.is_barrier_breached / DownBarrierOption.is_barrier_breached
is_barrier_breached(o, p) ==
    IF o.cls \in UpClasses THEN MaxSeq(p) > o.barrier ELSE MinSeq(p) < o.barrier

\* EuropeanCallOption.payoff / EuropeanPutOption.payoff
vanilla_payoff(isCall, strike, p) ==
    IF isCall THEN Max(0, Last(p) - strike) ELSE Max(0, strike - Last(p))

\* barrier_payoff in which the knock-in classes count a path that only touches
\* the barrier as breached while the knock-out classes do not
barrier_payoff_touch(o, p) ==
    LET intrinsic == vanilla_payoff(o.cls \in CallClasses, o.strike, p)
        touched == IF o.cls \in UpClasses THEN MaxSeq(p) >= o.barrier
                                          ELSE MinSeq(p) <= o.barrier
    IN  IF o.cls \in InClasses
        THEN IF touched THEN intrinsic ELSE 0
        ELSE IF is_barrier_breached(o, p) THEN 0 ELSE intrinsic

\* the payoff method of the eight barrier option classes
barrier_payoff(o, p) ==
    LET intrinsic == vanilla_payoff(o.cls \in CallClasses, o.strike, p)
    IN  IF o.cls \in InClasses
        THEN IF is_barrier_breached(o, p) THEN intrinsic ELSE 0
        ELSE IF is_barrier_breached(o, p) THEN 0 ELSE intrinsic

BarrierStart ==
    /\ options = [s \in Slots |-> None]
    /\ path = <<>>
    /\ payoffs = [s \in Slots |-> None]
    /\ error = None

\* cls(maturity, strike, barrier): the object exists only when no constructor raised.
\* The options are built first and then evaluated on one path.
ConstructBarrierOption(slot, cls, maturity, strike, barrier) ==
    /\ path = <<>>
    /\ IF BarrierOption_init_ok(cls, maturity, strike, barrier)
       THEN /\ options' = [options EXCEPT ![slot] =
                              Some([cls |-> cls, maturity |-> maturity,
                                    strike |-> strike, barrier |-> barrier])]
            /\ payoffs' = [payoffs EXCEPT ![slot] = None]
            /\ error' = None
       ELSE /\ error' = Some("ValueError")
            /\ UNCHANGED <<options, payoffs>>
    /\ UNCHANGED <<path, notBarrier>>

\* option.payoff(path) for every constructed option, on the same path
BarrierPayoff(p) ==
    /\ path = <<>>
    /\ path' = p
    /\ payoffs' = [s \in Slots |->
                     IF options[s] = None THEN None
                     ELSE Some(barrier_payoff(Get(options[s]), p))]
    /\ UNCHANGED <<options, error, notBarrier>>

BarrierConstruct ==
    \E slot \in Slots, cls \in BarrierClasses, m \in Maturities,
       k \in Strikes, b \in Barriers :
        ConstructBarrierOption(slot, cls, m, k, b)

BarrierEvaluate == \E p \in Paths : BarrierPayoff(p)

BarrierNext == BarrierConstruct \/ BarrierEvaluate

(***************************************************************************)
(* PricingResults and its aggregation over the legs of a strategy          *)
(***************************************************************************)
MaxLegs == 2

GreekNames == {"delta", "gamma", "vega", "rho", "theta"}

\* A standard deviation is a rational num/den (den > 0): the aggregation
\* divides by a list length, and the quotient is kept exact.
Rat(n, d) == [num |-> n, den |-> d]

RatAdd(a, b) == Rat(a.num * b.den + b.num * a.den, a.den * b.den)

\* PricingResults(): the dataclass defaults
PricingResults ==
    [price |-> None, std_dev |-> None, greeks |-> <<>>, coupon_callable |-> None]

\* PricingResults.set_greek
set_greek(r, name, value) ==
    [r EXCEPT !.greeks = [n \in (DOMAIN @) \cup {name} |->
                             IF n = name THEN value ELSE @[n]]]

RECURSIVE SumPrices(_)
SumPrices(rs) ==
    IF rs = <<>> THEN 0
    ELSE (IF Head(rs).price # None THEN Get(Head(rs).price) ELSE 0)
         + SumPrices(Tail(rs))

RECURSIVE StdDevs(_)
StdDevs(rs) ==
    IF rs = <<>> THEN <<>>
    ELSE (IF Head(rs).std_dev # None THEN <<Get(Head(rs).std_dev)>> ELSE <<>>)
         \o StdDevs(Tail(rs))

RECURSIVE RatSum(_)
RatSum(xs) == IF xs = <<>> THEN Rat(0, 1) ELSE RatAdd(Head(xs), RatSum(Tail(xs)))

RECURSIVE SumGreek(_, _)
SumGreek(rs, k) ==
    IF rs = <<>> THEN 0
    ELSE (IF k \in DOMAIN Head(rs).greeks THEN Head(rs).greeks[k] ELSE 0)
         + SumGreek(Tail(rs), k)

GreekKeys(rs) == UNION {DOMAIN rs[i].greeks : i \in DOMAIN rs}

\* get_aggregated_results that averages the standard deviations over all the
\* legs instead of over the legs that carry one
get_aggregated_results_all_legs(rs) ==
    LET std_devs == StdDevs(rs)
        mean == IF std_devs # <<>>
                THEN LET t == RatSum(std_devs)
                     IN  Some(Rat(t.num, t.den * Len(rs)))
                ELSE None
    IN  [aggregated |-> [PricingResults EXCEPT
                            !.price = Some(SumPrices(rs)),
                            !.std_dev = mean,
                            !.greeks = [k \in GreekKeys(rs) |-> SumGreek(rs, k)]],
         results |-> rs]

\* PricingResults.get_aggregated_results: the value returned and the list it
\* was given, as the call leaves it
get_aggregated_results(rs) ==
    LET std_devs == StdDevs(rs)
        mean == IF std_devs # <<>>
                THEN LET t == RatSum(std_devs)
                     IN  Some(Rat(t.num, t.den * Len(std_devs)))
                ELSE None
    IN  [aggregated |-> [PricingResults EXCEPT
                            !.price = Some(SumPrices(rs)),
                            !.std_dev = mean,
                            !.greeks = [k \in GreekKeys(rs) |-> SumGreek(rs, k)]],
         results |-> rs]

LegPrices == {None, Some(-3), Some(5)}
LegStdDevs == {None, Some(Rat(1, 1)), Some(Rat(4, 1))}
LegGreeks == {<<>>, [k \in {"delta"} |-> 2], [k \in {"delta", "vega"} |-> -1]}
LegResults ==
    {[PricingResults EXCEPT !.price = p, !.std_dev = sd, !.greeks = g] :
        p \in LegPrices, sd \in LegStdDevs, g \in LegGreeks}

AggStart ==
    /\ results = <<>>
    /\ results_in = None
    /\ aggregated = None

\* strat_results.append(result)
AggAppend(r) ==
    /\ aggregated = None
    /\ Len(results) < MaxLegs
    /\ results' = Append(results, r)
    /\ UNCHANGED <<results_in, aggregated, notAgg>>

\* PricingResults.get_aggregated_results(strat_results)
AggAggregate ==
    /\ aggregated = None
    /\ LET out == get_aggregated_results(results)
       IN  /\ aggregated' = Some(out.aggregated)
           /\ results' = out.results
    /\ results_in' = Some(results)
    /\ UNCHANGED notAgg

AggAddLeg == \E r \in LegResults : AggAppend(r)

AggNext == AggAddLeg \/ AggAggregate

(***************************************************************************)
(* Random number generation                                                *)
(* np.random.default_rng(seed) builds a new generator whose whole state is *)
(* derived from the seed; every draw advances that state.  The generator   *)
(* is a full-period congruential generator and a draw is a standard normal *)
(* deviate rounded to an integer in -2..2.                                 *)
(***************************************************************************)
MaxSeed == 3
MaxPaths == 2
MaxSteps == 2

Seeds == 0..MaxSeed

default_rng(seed) == seed % 16

rng_advance(state) == (state * 5 + 3) % 16

RECURSIVE rng_state(_, _)
rng_state(seed, k) ==
    IF k = 0 THEN default_rng(seed) ELSE rng_advance(rng_state(seed, k - 1))

\* rng.standard_normal(size=(nb_paths, nb_steps)): the matrix is filled row
\* by row, entry (p, j) is draw (p - 1) * nb_steps + j of the generator
standard_normal(seed, nb_paths, nb_steps) ==
    [p \in 1..nb_paths |->
        [j \in 1..nb_steps |-> (rng_state(seed, (p - 1) * nb_steps + j) % 5) - 2]]

RECURSIVE ISqrtIn(_, _, _)
ISqrtIn(n, lo, hi) ==
    IF lo >= hi THEN lo
    ELSE LET mid == (lo + hi + 1) \div 2
         IN  IF mid * mid <= n THEN ISqrtIn(n, mid, hi) ELSE ISqrtIn(n, lo, mid - 1)

\* np.sqrt on a non-negative fixed-point value: the integer square root
ISqrt(n) == ISqrtIn(n, 0, n)

\* np.sqrt(dt), dt in months, as a percentage of sqrt(1 year)
SqrtDt(dt) == ISqrt(Div(dt * 10000, 12))

\* np.exp(x) for x in 1/10000: 1 + x, floored above 0, in 1/10000
Exp(x) == Max(1, 10000 + x)

(***************************************************************************)
(* Stochastic processes                                                    *)
(***************************************************************************)
\* StochasticProcess.__init__: the fields it sets, or the exception it raises
StochasticProcess_init(S0, T, nb_steps) ==
    IF nb_steps = 0 THEN [raised |-> "ZeroDivisionError"]
    ELSE LET dt == Div(T, nb_steps)
         IN  IF dt <= 0 THEN [raised |-> "ValueError"]
             ELSE IF nb_steps <= 0 THEN [raised |-> "ValueError"]
             ELSE [raised |-> "", S0 |-> S0, nb_steps |-> nb_steps, T |-> T, dt |-> dt]

\* HestonProcess.__init__
HestonProcess(S0, T, nb_steps, drift, theta, kappa, ksi, rho) ==
    LET base == StochasticProcess_init(S0, T, nb_steps)
    IN  [cls |-> "HestonProcess", S0 |-> base.S0, T |-> base.T,
         nb_steps |-> base.nb_steps, dt |-> base.dt, drift |-> drift,
         theta |-> theta, kappa |-> kappa, ksi |-> ksi, rho |-> rho]

\* HestonProcessBis.__init__
HestonProcessBis(S0, V0, r, kappa, theta, xi, rho, T, nb_steps) ==
    LET base == StochasticProcess_init(S0, T, nb_steps)
    IN  [cls |-> "HestonProcessBis", S0 |-> base.S0, T |-> base.T,
         nb_steps |-> base.nb_steps, dt |-> base.dt, V0 |-> V0, r |-> r,
         kappa |-> kappa, theta |-> theta, xi |-> xi, rho |-> rho]

\* HestonProcess.get_random_increments and HestonProcessBis.get_random_increments:
\* (Z1 * sqrt(dt), Z3 * sqrt(dt)) with Z3 = rho * Z1 + sqrt(1 - rho^2) * Z2,
\* in 1/100
Heston_get_random_increments(process, nb_paths, seed) ==
    LET Z1 == standard_normal(seed, nb_paths, process.nb_steps)
        Z2 == standard_normal(seed + 1, nb_paths, process.nb_steps)
        Z3(p, j) == process.rho * Z1[p][j]
                    + ISqrt(10000 - process.rho * process.rho) * Z2[p][j]
    IN  <<[p \in 1..nb_paths |->
              [j \in 1..process.nb_steps |-> Z1[p][j] * SqrtDt(process.dt)]],
          [p \in 1..nb_paths |->
              [j \in 1..process.nb_steps |-> Div(Z3(p, j) * SqrtDt(process.dt), 100)]]>>

\* HestonProcessBis.get_drift, per year
HestonBis_get_drift(process, t, x) == Div(process.r * x, 10000)

\* HestonProcessBis.get_vol_drift, per year, in 1/10000
HestonBis_get_vol_drift(process, t, v) == process.kappa * (process.theta - v)

\* HestonProcessBis.get_vol_vol, in 1/10000
HestonBis_get_vol_vol(process, t, v) == process.xi * ISqrt(Max(v, 0))

(***************************************************************************)
(* Heston discretisation schemes                                           *)
(***************************************************************************)
Column(A, j) == [p \in DOMAIN A |-> A[p][j]]

MaxOver(f) == CHOOSE m \in {f[p] : p \in DOMAIN f} : \A p \in DOMAIN f : f[p] <= m

\* np.max(V[:, i - 1], 0): the second argument of np.max is the axis, so this
\* is the maximum of the column over all the paths
np_max_axis0(column) == MaxOver(column)

\* one iteration of the loop of HestonEulerScheme.simulate_paths (i = k, 1-based
\* column k holds step i - 1), for a column whose maximum is not negative
HestonEuler_step(process, W1, W2, Sa, Va, k) ==
    LET M == np_max_axis0(Column(Va, k))
        e(p) == Div(process.drift * process.dt, 12) - Div(M * process.dt, 24)
                + ISqrt(M) * W1[p][k]
    IN  [S |-> [p \in DOMAIN Sa |-> Append(Sa[p], Div(Sa[p][k] * Exp(e(p)), 10000))],
         V |-> [p \in DOMAIN Va |->
                  Append(Va[p],
                         Va[p][k]
                         + Div(process.kappa * (process.theta - M) * process.dt, 12)
                         + Div(process.ksi * ISqrt(M) * W2[p][k], 100))]]

\* one iteration of the loop of EulerSchemeBis._simulate_two_factor; dW1 and
\* dW2 are drawn again at every step with the seed seed + i, and are scaled
\* by sqrt(dt) a second time.  numpy broadcasts x (nb_paths,) against dW
\* (nb_paths, nb_steps); the assignment of the product is accepted only for
\* one path and one step, the shape modelled here.
TwoFactor_step(process, nb_paths, seed, Sa, Va, k) ==
    LET dW == Heston_get_random_increments(process, nb_paths, seed + (k - 1))
        sqrt_dt == SqrtDt(process.dt)
        x(p) == Sa[p][k]
        v(p) == Va[p][k]
        x_next(p) == x(p) + Div(HestonBis_get_drift(process, k - 1, x(p)) * process.dt, 12)
                     + Div(ISqrt(Max(v(p), 0)) * x(p) * Div(sqrt_dt * dW[1][p][k], 100),
                           10000)
        v_next(p) == v(p) + Div(HestonBis_get_vol_drift(process, k - 1, v(p)) * process.dt, 12)
                     + Div(HestonBis_get_vol_vol(process, k - 1, v(p)) * sqrt_dt * dW[2][p][k],
                           10000)
    IN  [S |-> [p \in DOMAIN Sa |-> Append(Sa[p], x_next(p))],
         V |-> [p \in DOMAIN Va |-> Append(Va[p], v_next(p))]]

Kappas == {2, 8}
Thetas == {400, 736}
Ksis == {39, 100}
Rhos == {-17, 0}

HestonSchemes ==
    {[cls |-> "HestonEulerScheme",
      process |-> HestonProcess(100, 12, n, 500, th, ka, ks, rh),
      nb_paths |-> np, seed |-> sd] :
        n \in 1..MaxSteps, th \in Thetas, ka \in Kappas, ks \in Ksis, rh \in Rhos,
        np \in 1..MaxPaths, sd \in Seeds}
    \cup
    {[cls |-> "EulerSchemeBis",
      process |-> HestonProcessBis(100, v0, 500, ka, th, ks, rh, 12, 1),
      nb_paths |-> 1, seed |-> sd] :
        v0 \in Thetas, th \in Thetas, ka \in Kappas, ks \in Ksis, rh \in Rhos,
        sd \in Seeds}

HestonStart ==
    /\ scheme = None
    /\ W = <<>>
    /\ S_paths = <<>>
    /\ V_paths = <<>>
    /\ step = 0
    /\ nan = FALSE
    /\ hpc = "start"

\* simulate_paths up to the loop: the increments and column 0 of the arrays
HestonSimulateBegin(sch) ==
    /\ hpc = "start"
    /\ scheme' = Some(sch)
    /\ W' = IF sch.cls = "HestonEulerScheme"
            THEN Heston_get_random_increments(sch.process, sch.nb_paths, sch.seed)
            ELSE <<>>
    /\ S_paths' = [p \in 1..sch.nb_paths |-> <<sch.process.S0>>]
    /\ V_paths' = [p \in 1..sch.nb_paths |->
               <<IF sch.cls = "HestonEulerScheme" THEN sch.process.theta
                 ELSE sch.process.V0>>]
    /\ step' = 1
    /\ nan' = FALSE
    /\ hpc' = "loop"
    /\ UNCHANGED notHeston

\* one iteration of the loop.  The square root of a negative column maximum
\* is NaN: every later entry is NaN and no number is stored.
HestonSimulateStep ==
    /\ hpc = "loop"
    /\ step <= Get(scheme).process.nb_steps
    /\ ~nan
    /\ LET sch == Get(scheme)
       IN  IF sch.cls = "HestonEulerScheme" /\ np_max_axis0(Column(V_paths, step)) < 0
           THEN /\ nan' = TRUE
                /\ UNCHANGED <<S_paths, V_paths>>
           ELSE LET out == IF sch.cls = "HestonEulerScheme"
                           THEN HestonEuler_step(sch.process, W[1], W[2], S_paths, V_paths, step)
                           ELSE TwoFactor_step(sch.process, sch.nb_paths, sch.seed, S_paths, V_paths, step)
                IN  /\ S_paths' = out.S
                    /\ V_paths' = out.V
                    /\ nan' = FALSE
    /\ step' = step + 1
    /\ UNCHANGED <<scheme, W, hpc, notHeston>>

\* the return of simulate_paths
HestonSimulateReturn ==
    /\ hpc = "loop"
    /\ step > Get(scheme).process.nb_steps \/ nan
    /\ hpc' = "done"
    /\ UNCHANGED <<scheme, W, S_paths, V_paths, step, nan, notHeston>>

HestonSimulate == \E sch \in HestonSchemes : HestonSimulateBegin(sch)

HestonNext == HestonSimulate \/ HestonSimulateStep \/ HestonSimulateReturn

(***************************************************************************)
(* Market (kernel/market_data/market.py).  Prices and strikes are in       *)
(* 1/100.  The calibrated rate curve is a line in the maturity and the     *)
(* calibrated volatility surface a line in the strike.                     *)
(***************************************************************************)
\* RateCurve.get_rate: the interpolated yield at a maturity
RateCurve_get_rate(curve, maturity) == curve.level + Div(curve.slope * maturity, 12)

\* Market.get_rate
Market_get_rate(mkt, maturity) == RateCurve_get_rate(mkt.rate_curve, maturity)

\* Market.get_discount_factor, in 1/10000
Market_get_discount_factor(mkt, maturity) ==
    Exp(-Div(Market_get_rate(mkt, maturity) * maturity, 12))

\* Market.get_volatility: the surface at (strike, maturity), in percent
Market_get_volatility(mkt, strike, maturity) ==
    LET surface == mkt.volatility_surface
    IN  Max(1, surface.atm + Div(surface.skew * (surface.spot - strike), 100))

\* Market.get_fwd_rate(t1, t2): the rate between two maturities that the
\* curve implies
Market_get_fwd_rate(mkt, t1, t2) ==
    Div(Market_get_rate(mkt, t2) * t2 - Market_get_rate(mkt, t1) * t1, t2 - t1)

\* Market.bump_flat_yield_curve(epsilon): a new Market whose curve is the
\* curve of this one moved by epsilon at every maturity
Market_bump_flat_yield_curve(mkt, epsilon) ==
    [mkt EXCEPT !.rate_curve.level = @ + epsilon]

\* a flat curve under a flat surface, and a rising curve under a skewed one
Markets ==
    {[underlying_asset |-> [last_price |-> 10000],
      rate_curve |-> [level |-> 500, slope |-> 0],
      volatility_surface |-> [spot |-> 10000, atm |-> 20, skew |-> 0]],
     [underlying_asset |-> [last_price |-> 10000],
      rate_curve |-> [level |-> 300, slope |-> 100],
      volatility_surface |-> [spot |-> 10000, atm |-> 20, skew |-> 1]]}

(***************************************************************************)
(* One-factor processes and the Euler scheme the engine simulates with     *)
(***************************************************************************)
\* BlackScholesProcessBis.__init__, the class with the mu and sigma fields
\* that the engine's BlackScholesProcess(...) call and its vega bump use
BlackScholesProcess(S0, T, nb_steps, drift, volatility) ==
    LET base == StochasticProcess_init(S0, T, nb_steps)
    IN  [cls |-> "BlackScholesProcess", S0 |-> base.S0, T |-> base.T,
         nb_steps |-> base.nb_steps, dt |-> base.dt, mu |-> drift,
         sigma |-> volatility]

\* BlackScholesProcessBis.get_drift (t is 0-based), per year, in 1/10000
BlackScholes_get_drift(process, t, x) == process.mu[t + 1] * x

\* BlackScholesProcessBis.get_volatility, in 1/100
BlackScholes_get_volatility(process, t, x) == process.sigma * x

\* BlackScholesProcessBis.get_random_increments drawing from a generator that
\* is shared by the calls and goes on from where the last call left it
BlackScholes_get_random_increments_shared(process, nb_paths, seed) ==
    LET Z == standard_normal(seed + Len(runs), nb_paths, process.nb_steps)
    IN  [p \in 1..nb_paths |->
            [j \in 1..process.nb_steps |-> Z[p][j] * SqrtDt(process.dt)]]

\* BlackScholesProcessBis.get_random_increments: Z * sqrt(dt), in 1/100
BlackScholes_get_random_increments(process, nb_paths, seed) ==
    LET Z == standard_normal(seed, nb_paths, process.nb_steps)
    IN  [p \in 1..nb_paths |->
            [j \in 1..process.nb_steps |-> Z[p][j] * SqrtDt(process.dt)]]

\* the loop of EulerSchemeBis._simulate_one_factor from index i on
RECURSIVE OneFactor_loop(_, _, _, _)
OneFactor_loop(process, dW, paths, i) ==
    IF i >= process.nb_steps THEN paths
    ELSE OneFactor_loop(process, dW,
             [p \in DOMAIN paths |->
                 Append(paths[p],
                        paths[p][i + 1]
                        + Div(BlackScholes_get_drift(process, i, paths[p][i + 1])
                              * process.dt, 12 * 10000)
                        + Div(BlackScholes_get_volatility(process, i, paths[p][i + 1])
                              * dW[p][i + 1], 10000))],
             i + 1)

\* EulerSchemeBis._simulate_one_factor once dW is drawn: the increments and
\* the paths
OneFactor_paths(process, nb_paths, dW) ==
    [dW |-> dW,
     paths |-> OneFactor_loop(process, dW, [p \in 1..nb_paths |-> <<process.S0>>], 0)]

\* EulerSchemeBis._simulate_one_factor
simulate_one_factor(process, nb_paths, seed) ==
    OneFactor_paths(process, nb_paths,
                    BlackScholes_get_random_increments(process, nb_paths, seed))

(***************************************************************************)
(* MCPricingEngine                                                         *)
(***************************************************************************)
\* the HestonProcess the engine builds: HestonProcess(S0, v0, T, nb_steps,
\* drift, kappa, theta, sigma, rho), with the fields v0 and sigma that the
\* vega bump and get_theta read
Engine_HestonProcess(S0, v0, T, nb_steps, drift, kappa, theta, sigma, rho) ==
    LET base == StochasticProcess_init(S0, T, nb_steps)
    IN  [cls |-> "HestonProcess", S0 |-> base.S0, T |-> base.T,
         nb_steps |-> base.nb_steps, dt |-> base.dt, v0 |-> v0, drift |-> drift,
         kappa |-> kappa, theta |-> theta, sigma |-> sigma, rho |-> rho]

\* the two-factor process the scheme steps at loop index i: the engine's
\* process with its drift of that step
TwoFactorView(process, i) ==
    HestonProcessBis(process.S0, process.v0, process.drift[i + 1], process.kappa,
                     process.theta, process.sigma, process.rho, process.T,
                     process.nb_steps)

\* the loop of EulerSchemeBis._simulate_two_factor from index i on, applied
\* path by path; arrays holds the price and the variance component
RECURSIVE TwoFactor_loop(_, _, _, _, _)
TwoFactor_loop(process, nb_paths, seed, arrays, i) ==
    IF i >= process.nb_steps THEN arrays
    ELSE TwoFactor_loop(process, nb_paths, seed,
                        TwoFactor_step(TwoFactorView(process, i), nb_paths, seed,
                                       arrays.S, arrays.V, i + 1),
                        i + 1)

\* EulerSchemeBis._simulate_two_factor: the increments of every step and the
\* price component of the paths
simulate_two_factor(process, nb_paths, seed) ==
    [dW |-> [i \in 1..process.nb_steps |->
                Heston_get_random_increments(process, nb_paths, seed + (i - 1))],
     paths |-> TwoFactor_loop(process, nb_paths, seed,
                              [S |-> [p \in 1..nb_paths |-> <<process.S0>>],
                               V |-> [p \in 1..nb_paths |-> <<process.v0>>]], 0).S]

\* EulerSchemeBis.simulate_paths
simulate_paths(process, nb_paths, seed) ==
    IF process.cls = "BlackScholesProcess"
    THEN simulate_one_factor(process, nb_paths, seed)
    ELSE simulate_two_factor(process, nb_paths, seed)

\* derivative.payoff(path) of the vanilla options
payoff(d, p) == vanilla_payoff(d.cls = "EuropeanCallOption", d.strike, p)

\* the model branch of MCPricingEngine.get_stochastic_process
model_process(model, initial_value, T, nb_steps, drift, volatility) ==
    IF model = "BLACK_SCHOLES"
    THEN BlackScholesProcess(initial_value, T, nb_steps, drift, volatility)
    ELSE IF model = "HESTON"
         THEN Engine_HestonProcess(initial_value, volatility * volatility, T,
                                   nb_steps, drift, 8, 736, 39, -17)
         ELSE None

\* MCPricingEngine.get_stochastic_process: a new process object
get_stochastic_process(d, mkt) ==
    model_process(settings.model, mkt.underlying_asset.last_price, d.maturity,
                  settings.nb_steps,
                  [i \in 1..settings.nb_steps |->
                      IF settings.nb_steps = 1 THEN Market_get_rate(mkt, d.maturity)
                      ELSE Market_get_fwd_rate(mkt,
                               (i - 1) * Div(d.maturity, settings.nb_steps),
                               i * Div(d.maturity, settings.nb_steps))],
                  Market_get_volatility(mkt,
                      IF "strike" \in DOMAIN d THEN d.strike
                      ELSE mkt.underlying_asset.last_price,
                      d.maturity))

\* MCPricingEngine._get_price once the paths are simulated: what the call
\* read and what it computed
price_of_paths(mkt, d, pid, process, sim) ==
    [market |-> mkt, derivative |-> d, pid |-> pid, process |-> process,
     nb_paths |-> settings.nb_paths, seed |-> settings.random_seed,
     dW |-> sim.dW, paths |-> sim.paths,
     price |-> Div(SumSeq([p \in 1..settings.nb_paths |-> payoff(d, sim.paths[p])])
                   * Market_get_discount_factor(mkt, d.maturity),
                   settings.nb_paths * 10000)]

\* MCPricingEngine._get_price on the process object pid of the heap h, with
\* mkt as self.market
pricing_run(mkt, d, h, pid) ==
    price_of_paths(mkt, d, pid, h[pid],
                   simulate_paths(h[pid], settings.nb_paths, settings.random_seed))

\* the _get_price calls of a Greek on the process objects pids of the heap h:
\* the heap, self.market and the pricing runs as they leave them
reprice(mkt, d, h, pids) ==
    [heap |-> h, market |-> mkt,
     runs |-> [k \in DOMAIN pids |-> pricing_run(mkt, d, h, pids[k])]]

\* (price_up - price_down) / (2 * epsilon) of the runs out.runs = (up, down)
central_difference(out, scale, epsilon) ==
    [value |-> Div((out.runs[1].price - out.runs[2].price) * scale, 2 * epsilon),
     heap |-> out.heap, market |-> out.market, runs |-> out.runs]

\* (price_up + price_down - 2 * base_price) / epsilon ** 2 of the runs
\* out.runs = (base, up, down)
second_difference(out, scale, epsilon) ==
    [value |-> Div((out.runs[2].price + out.runs[3].price - 2 * out.runs[1].price)
                   * scale, epsilon * epsilon),
     heap |-> out.heap, market |-> out.market, runs |-> out.runs]

\* n new process objects of get_stochastic_process(d, mkt) at the end of h
build(h, d, mkt, n) == h \o [k \in 1..n |-> get_stochastic_process(d, mkt)]

\* get_delta that bumps the spot of self.market itself and leaves it bumped
get_delta_bump_market(d, epsilon) ==
    central_difference(
        reprice([market EXCEPT !.underlying_asset.last_price = @ + epsilon], d,
                [build(heap, d, market, 2) EXCEPT
                    ![Len(heap) + 1].S0 = @ + epsilon,
                    ![Len(heap) + 2].S0 = @ - epsilon],
                <<Len(heap) + 1, Len(heap) + 2>>),
        100, epsilon)

\* MCPricingEngine.get_delta: the value, and the heap, self.market and the
\* pricing runs as the call leaves them.  epsilon is in 1/100.
get_delta(d, epsilon) ==
    central_difference(
        reprice(market, d,
                [build(heap, d, market, 2) EXCEPT
                    ![Len(heap) + 1].S0 = @ + epsilon,
                    ![Len(heap) + 2].S0 = @ - epsilon],
                <<Len(heap) + 1, Len(heap) + 2>>),
        100, epsilon)

\* MCPricingEngine.get_gamma
get_gamma(d, epsilon) ==
    second_difference(
        reprice(market, d,
                [build(heap, d, market, 3) EXCEPT
                    ![Len(heap) + 2].S0 = @ + epsilon,
                    ![Len(heap) + 3].S0 = @ - epsilon],
                <<Len(heap) + 1, Len(heap) + 2, Len(heap) + 3>>),
        10000, epsilon)

\* MCPricingEngine.get_vega; epsilon is in percent of volatility, and in
\* 1/10000 of variance for the v0 of the Heston process
get_vega(d, epsilon) ==
    central_difference(
        reprice(market, d,
                IF settings.model = "BLACK_SCHOLES"
                THEN [build(heap, d, market, 2) EXCEPT
                         ![Len(heap) + 1].sigma = @ + epsilon,
                         ![Len(heap) + 2].sigma = @ - epsilon]
                ELSE [build(heap, d, market, 2) EXCEPT
                         ![Len(heap) + 1].v0 = @ + epsilon * 100,
                         ![Len(heap) + 2].v0 = @ - epsilon * 100],
                <<Len(heap) + 1, Len(heap) + 2>>),
        100, epsilon)

\* MCPricingEngine.get_rho; epsilon is in 1/10000 and epsilon_fit, which is
\* epsilon * 100 in percent, is the same number in 1/100 of a percent
get_rho(d, epsilon) ==
    central_difference(
        reprice(market, d,
                build(build(heap, d, Market_bump_flat_yield_curve(market, epsilon), 1),
                      d, Market_bump_flat_yield_curve(market, -epsilon), 1),
                <<Len(heap) + 1, Len(heap) + 2>>),
        10000, epsilon)

\* the terms of get_theta that the two models share
theta_common(price, delta, gamma, S, r, v0) ==
    - Div(v0 * Div(S * S, 10000), 20000) * gamma
    - Div(r * S * delta, 1000000)
    + Div(r * price, 10000)

\* the terms of get_theta of the Heston model
theta_heston(vega, v0, heston_process) ==
    - Div(heston_process.kappa * (heston_process.theta - v0) * vega, 10000)
    - Div(heston_process.sigma * heston_process.sigma * vega, 20000)

\* sigma ** 2 for the sigma get_theta reads on the surface
theta_v0(d, mkt) ==
    Market_get_volatility(mkt,
        IF "strike" \in DOMAIN d THEN d.strike ELSE mkt.underlying_asset.last_price,
        d.maturity)
    * Market_get_volatility(mkt,
        IF "strike" \in DOMAIN d THEN d.strike ELSE mkt.underlying_asset.last_price,
        d.maturity)

\* MCPricingEngine.get_theta.  delta and gamma are in 1/100 per unit of
\* spot, vega per unit of volatility, the value per year.
get_theta(price, delta, gamma, vega, d, mkt) ==
    theta_common(price, delta, gamma, mkt.underlying_asset.last_price,
                 Market_get_rate(mkt, 0), theta_v0(d, mkt))
    + IF settings.model = "BLACK_SCHOLES" THEN 0
      ELSE theta_heston(vega, theta_v0(d, mkt), get_stochastic_process(d, mkt))

EngineOptions ==
    {[cls |-> c, maturity |-> 12, strike |-> k] :
        c \in {"EuropeanCallOption", "EuropeanPutOption"}, k \in {10000, 10500}}

\* the (option, is_long) pairs a strategy holds
StrategyLegs ==
    {<<[cls |-> "EuropeanCallOption", maturity |-> 12, strike |-> 10000], TRUE>>,
     <<[cls |-> "EuropeanCallOption", maturity |-> 12, strike |-> 10000], FALSE>>}

Strategies ==
    {[cls |-> "AbstractOptionStrategy", options |-> legs] :
        legs \in SeqsUpTo(StrategyLegs, MaxLegs) \ {<<>>}}

EngineSettings ==
    [nb_paths : {MaxPaths}, nb_steps : {1, MaxSteps}, random_seed : {MaxSeed},
     enable_greeks : BOOLEAN, model : {"BLACK_SCHOLES", "HESTON"}]

NoFrame ==
    [derivative |-> None, position |-> 0, process |-> 0, price |-> 0,
     pricing_results |-> PricingResults,
     delta |-> 0, gamma |-> 0, vega |-> 0, rho |-> 0]

\* MCPricingEngine(market, settings), before any call
MCEngine(mkt, stg) ==
    /\ market = mkt
    /\ market_in = mkt
    /\ settings = stg
    /\ derivative = None
    /\ heap = <<>>
    /\ frame = NoFrame
    /\ strat_results = <<>>
    /\ leg = 0
    /\ mc_result = None
    /\ runs = <<>>
    /\ mpc = "idle"

MCStart ==
    MCEngine([underlying_asset |-> [last_price |-> 10000],
              rate_curve |-> [level |-> 500, slope |-> 0],
              volatility_surface |-> [spot |-> 10000, atm |-> 20, skew |-> 0]],
             [nb_paths |-> 1, nb_steps |-> 1, random_seed |-> 1,
              enable_greeks |-> FALSE, model |-> "BLACK_SCHOLES"])

\* the (option, is_long) pairs get_results goes through: the options of a
\* strategy, or the single option with the default position
Legs(d) ==
    IF d.cls = "AbstractOptionStrategy" THEN d.options ELSE <<<<d, TRUE>>>>

\* get_results(derivative), up to the first get_result
MCGetResults(d) ==
    /\ mpc = "idle"
    /\ derivative' = Some(d)
    /\ strat_results' = <<>>
    /\ leg' = 1
    /\ mpc' = "get_result"
    /\ UNCHANGED <<market, market_in, settings, heap, frame, mc_result, runs, notMC>>

\* get_result(opt, position) up to its process: the process of get_results'
\* loop body (strategies only) and process = self.get_stochastic_process(...)
MCGetResult ==
    /\ mpc = "get_result"
    /\ leg <= Len(Legs(Get(derivative)))
    /\ heap' = build(heap, Legs(Get(derivative))[leg][1], market,
                     IF Get(derivative).cls = "AbstractOptionStrategy" THEN 2 ELSE 1)
    /\ frame' = [NoFrame EXCEPT
                    !.derivative = Some(Legs(Get(derivative))[leg][1]),
                    !.position = IF Legs(Get(derivative))[leg][2] THEN 1 ELSE -1,
                    !.process = Len(heap')]
    /\ mpc' = "price"
    /\ UNCHANGED <<market, market_in, settings, derivative, strat_results, leg,
                   mc_result, runs, notMC>>

\* price = self._get_price(derivative, process), and the PricingResults
\* holding price * position
MCBasePrice ==
    /\ mpc = "price"
    /\ runs' = Append(runs, pricing_run(market, Get(frame.derivative), heap,
                                        frame.process))
    /\ frame' = [frame EXCEPT
                    !.price = Last(runs').price,
                    !.pricing_results =
                        [PricingResults EXCEPT
                            !.price = Some(Last(runs').price * frame.position)]]
    /\ mpc' = "delta"
    /\ UNCHANGED <<market, market_in, settings, derivative, heap, strat_results,
                   leg, mc_result, notMC>>

\* name = self.get_<name>(derivative, epsilon) * position, out being what the
\* get_<name> call returns and leaves behind
StoreGreek(name, out, next) ==
    /\ frame' = [frame EXCEPT ![name] = out.value * frame.position]
    /\ heap' = out.heap
    /\ market' = out.market
    /\ runs' = runs \o out.runs
    /\ mpc' = next
    /\ UNCHANGED <<market_in, settings, derivative, strat_results, leg, mc_result, notMC>>

\* delta = self.get_delta(derivative, epsilon=1) * position
MCDelta ==
    /\ mpc = "delta"
    /\ StoreGreek("delta", get_delta(Get(frame.derivative), 100), "gamma")

\* gamma = self.get_gamma(derivative, epsilon=1) * position
MCGamma ==
    /\ mpc = "gamma"
    /\ StoreGreek("gamma", get_gamma(Get(frame.derivative), 100), "vega")

\* vega = self.get_vega(derivative, epsilon=0.01) * position
MCVega ==
    /\ mpc = "vega"
    /\ StoreGreek("vega", get_vega(Get(frame.derivative), 1), "rho")

\* rho = self.get_rho(derivative, epsilon=0.0001) * position
MCRho ==
    /\ mpc = "rho"
    /\ StoreGreek("rho", get_rho(Get(frame.derivative), 1), "theta")

\* theta = self.get_theta(price, delta, gamma, vega, ...) * position, the five
\* set_greek calls and the return of get_result into get_results' loop
MCThetaReturn ==
    /\ mpc = "theta"
    /\ strat_results' =
           Append(strat_results,
                  set_greek(set_greek(set_greek(set_greek(set_greek(
                      frame.pricing_results, "delta", frame.delta),
                      "gamma", frame.gamma), "vega", frame.vega), "rho", frame.rho),
                      "theta",
                      get_theta(frame.price, frame.delta, frame.gamma, frame.vega,
                                Get(frame.derivative), market) * frame.position))
    /\ frame' = [frame EXCEPT !.pricing_results = Last(strat_results')]
    /\ heap' = IF settings.model = "HESTON"
               THEN build(heap, Get(frame.derivative), market, 1)
               ELSE heap
    /\ leg' = leg + 1
    /\ mpc' = "get_result"
    /\ UNCHANGED <<market, market_in, settings, derivative, mc_result, runs, notMC>>

\* the return of get_results: the aggregation of the legs' results for a
\* strategy, the result of get_result for a single option
MCReturn ==
    /\ mpc = "get_result"
    /\ leg > Len(Legs(Get(derivative)))
    /\ mc_result' = IF Get(derivative).cls = "AbstractOptionStrategy"
                    THEN Some(get_aggregated_results(strat_results).aggregated)
                    ELSE Some(strat_results[1])
    /\ mpc' = "done"
    /\ UNCHANGED <<market, market_in, settings, derivative, heap, frame,
                   strat_results, leg, runs, notMC>>

MCPrice == \E d \in EngineOptions \cup Strategies : MCGetResults(d)

MCNext ==
    \/ MCPrice
    \/ MCGetResult
    \/ MCBasePrice
    \/ MCDelta
    \/ MCGamma
    \/ MCVega
    \/ MCRho
    \/ MCThetaReturn
    \/ MCReturn

(***************************************************************************)
(* Autocall products (kernel/products/structured_products)                 *)
(* Performances and barriers are in percent of the initial price; payoffs  *)
(* and coupon rates are in 1/CouponScale, so that every midpoint of the    *)
(* coupon bisection is exact.                                              *)
(***************************************************************************)
MaxIter == 4

CouponScale == 2 ^ MaxIter

\* int((self.maturity * self.observation_frequency.value) + 1)
num_observations(d) == Div(d.maturity * d.observation_frequency, 12) + 1

\* np.linspace(0, len(paths) - 1, n).astype(int), as 1-based indices
index_observations(len, n) ==
    [k \in 1..n |-> IF n = 1 THEN 1 ELSE Div((k - 1) * (len - 1), n - 1) + 1]

\* (paths[index_observations] / paths[0]) * 100
normalised(d, p) ==
    [k \in 1..num_observations(d) |->
        Div(p[index_observations(Len(p), num_observations(d))[k]] * 100, p[1])]

\* the end of Phoenix.payoff and Eagle.payoff below the capital barrier;
\* gained is what the path has earned on top of the redemption
below_capital_barrier(d, final_price, gained) ==
    IF d.is_security
    THEN Max(0, 100 * CouponScale
                - Div((d.capital_barrier - final_price) * 100 * CouponScale,
                      d.capital_barrier)
                + gained)
    ELSE Max(0, final_price * CouponScale + gained)

\* Phoenix.payoff from observation t on: (payoff, call index)
RECURSIVE Phoenix_loop(_, _, _, _, _)
Phoenix_loop(d, perf, t, coupons, missed_coupons) ==
    IF t >= Len(perf)
    THEN IF Last(perf) >= d.capital_barrier
         THEN <<100 * CouponScale + coupons + missed_coupons, Len(perf)>>
         ELSE <<below_capital_barrier(d, Last(perf), coupons), Len(perf)>>
    ELSE IF perf[t + 1] >= d.autocall_barrier
         THEN <<100 * CouponScale + coupons + d.coupon_rate + missed_coupons, t>>
         ELSE IF perf[t + 1] >= d.coupon_barrier
              THEN Phoenix_loop(d, perf, t + 1,
                                coupons + d.coupon_rate + missed_coupons, 0)
              ELSE Phoenix_loop(d, perf, t + 1, coupons,
                                IF d.is_plus THEN missed_coupons + d.coupon_rate
                                ELSE missed_coupons)

\* Eagle.payoff from observation t on: (payoff, call index)
RECURSIVE Eagle_loop(_, _, _)
Eagle_loop(d, perf, t) ==
    IF t >= Len(perf)
    THEN IF Last(perf) >= d.capital_barrier
         THEN <<IF d.is_plus THEN 100 * CouponScale + Len(perf) * d.coupon_rate
                ELSE 100 * CouponScale,
                Len(perf)>>
         ELSE <<below_capital_barrier(d, Last(perf), 0), Len(perf)>>
    ELSE IF perf[t + 1] >= d.autocall_barrier
         THEN <<100 * CouponScale + t * d.coupon_rate, t>>
         ELSE Eagle_loop(d, perf, t + 1)

\* derivative.payoff(path) of an autocall: (payoff, t_call)
autocall_payoff(d, p) ==
    IF d.cls = "Phoenix" THEN Phoenix_loop(d, normalised(d, p), 1, 0, 0)
    ELSE Eagle_loop(d, normalised(d, p), 1)

(***************************************************************************)
(* CallableMCPricingEngineBis                                              *)
(***************************************************************************)
\* MCPricingEngineBis._set_stochastic_process: the process of the model for
\* the product and self.market
set_stochastic_process(d) == get_stochastic_process(d, market)

\* one turn of the loop of get_price on the (payoff, t_call) of a path; the
\* discount time is t_call * obs_frequency.value years, here in months
discounted(mkt, obs_frequency, cash) ==
    [payoff |-> cash[1], t_call |-> cash[2],
     discount_time |-> cash[2] * obs_frequency * 12,
     discount_factor |-> Market_get_discount_factor(mkt, cash[2] * obs_frequency * 12)]

\* np.mean(total_payoff), in 1/(CouponScale * 10000), with the paths' cashflows
mean_total_payoff(flows) ==
    [cashflows |-> flows,
     price |-> Div(SumSeq([k \in DOMAIN flows |->
                              flows[k].payoff * flows[k].discount_factor]),
                   Len(flows))]

\* CallableMCPricingEngineBis.get_price
get_price(d, process) ==
    mean_total_payoff(
        [p \in 1..settings.nb_paths |->
            discounted(market, settings.obs_frequency,
                       autocall_payoff(d, simulate_paths(process, settings.nb_paths,
                                                         settings.random_seed).paths[p]))])

\* get_coupon's defaults target_price = 100 and epsilon = 1e-2
target_price == 100 * CouponScale * 10000

epsilon == CouponScale * 100

AutocallProducts ==
    {[cls |-> "Phoenix", maturity |-> m, observation_frequency |-> f,
      capital_barrier |-> 60, autocall_barrier |-> ab, coupon_rate |-> 5 * CouponScale,
      coupon_barrier |-> 80, is_security |-> sec, is_plus |-> plus] :
        m \in {12, 24}, f \in {1, 2}, ab \in {100, 120}, sec \in BOOLEAN, plus \in BOOLEAN}
    \cup
    {[cls |-> "Eagle", maturity |-> m, observation_frequency |-> f,
      capital_barrier |-> 60, autocall_barrier |-> ab, coupon_rate |-> 5 * CouponScale,
      is_security |-> sec, is_plus |-> plus] :
        m \in {12, 24}, f \in {1, 2}, ab \in {100, 120}, sec \in BOOLEAN, plus \in BOOLEAN}

CallableSettings ==
    [nb_paths : {MaxPaths}, nb_steps : {MaxSteps}, random_seed : Seeds,
     enable_greeks : {FALSE}, model : {"BLACK_SCHOLES"},
     obs_frequency : {1, 2}, compute_coupon : BOOLEAN]

\* before any call of the callable engine
CallStart ==
    /\ product = None
    /\ stochastic_process = None
    /\ max_iter = 0
    /\ lower_bound = 0
    /\ upper_bound = 0
    /\ mid_coupon = None
    /\ iter = 0
    /\ tried = <<>>
    /\ cashflows = <<>>
    /\ call_result = None
    /\ cpc = "idle"

\* get_results(derivative) up to the branch on compute_coupon, and the entry
\* of get_coupon(derivative, max_iter=n) with its bracket [0, 50]
CallGetResults(d, n) ==
    /\ cpc = "idle"
    /\ product' = Some(d)
    /\ call_result' = Some(PricingResults)
    /\ stochastic_process' = Some(set_stochastic_process(d))
    /\ max_iter' = n
    /\ lower_bound' = 0
    /\ upper_bound' = 50 * CouponScale
    /\ cpc' = IF settings.compute_coupon THEN "coupon" ELSE "price"
    /\ UNCHANGED <<mid_coupon, iter, tried, cashflows, notCall>>

\* result.price = price, out being what get_price returns
StorePrice(out) ==
    /\ call_result' = Some([Get(call_result) EXCEPT !.price = Some(out.price)])
    /\ cashflows' = out.cashflows
    /\ cpc' = "done"
    /\ UNCHANGED <<product, stochastic_process, max_iter, lower_bound, upper_bound,
                   mid_coupon, iter, tried, notCall>>

\* price = self.get_price(derivative, self.stochastic_process) of get_results
CallPrice ==
    /\ cpc = "price"
    /\ StorePrice(get_price(Get(product), Get(stochastic_process)))

\* one iteration of get_coupon's loop that keeps bisecting after a price
\* within epsilon of the target
BisectionStep_no_stop(mid, out) ==
    /\ mid_coupon' = Some(mid)
    /\ product' = Some([Get(product) EXCEPT !.coupon_rate = mid])
    /\ cashflows' = out.cashflows
    /\ tried' = Append(tried, [coupon |-> mid, price |-> out.price])
    /\ iter' = iter + 1
    /\ lower_bound' = IF out.price < target_price THEN mid ELSE lower_bound
    /\ upper_bound' = IF out.price < target_price THEN upper_bound ELSE mid
    /\ UNCHANGED <<call_result, cpc>>
    /\ UNCHANGED <<stochastic_process, max_iter, notCall>>

\* one iteration of get_coupon's loop that reprices a copy of the product
\* and leaves the coupon of the product it was given as it was
BisectionStep_on_copy(mid, out) ==
    /\ mid_coupon' = Some(mid)
    /\ product' = product
    /\ cashflows' = out.cashflows
    /\ tried' = Append(tried, [coupon |-> mid, price |-> out.price])
    /\ iter' = iter + 1
    /\ IF Abs(out.price - target_price) < epsilon
       THEN /\ call_result' = Some([Get(call_result) EXCEPT !.coupon_callable = Some(mid)])
            /\ cpc' = "done"
            /\ UNCHANGED <<lower_bound, upper_bound>>
       ELSE /\ lower_bound' = IF out.price < target_price THEN mid ELSE lower_bound
            /\ upper_bound' = IF out.price < target_price THEN upper_bound ELSE mid
            /\ UNCHANGED <<call_result, cpc>>
    /\ UNCHANGED <<stochastic_process, max_iter, notCall>>

\* one iteration of get_coupon's loop that moves the wrong end of the
\* bracket: the upper bound on a price below the target
BisectionStep_swapped(mid, out) ==
    /\ mid_coupon' = Some(mid)
    /\ product' = Some([Get(product) EXCEPT !.coupon_rate = mid])
    /\ cashflows' = out.cashflows
    /\ tried' = Append(tried, [coupon |-> mid, price |-> out.price])
    /\ iter' = iter + 1
    /\ IF Abs(out.price - target_price) < epsilon
       THEN /\ call_result' = Some([Get(call_result) EXCEPT !.coupon_callable = Some(mid)])
            /\ cpc' = "done"
            /\ UNCHANGED <<lower_bound, upper_bound>>
       ELSE /\ lower_bound' = IF out.price < target_price THEN lower_bound ELSE mid
            /\ upper_bound' = IF out.price < target_price THEN mid ELSE upper_bound
            /\ UNCHANGED <<call_result, cpc>>
    /\ UNCHANGED <<stochastic_process, max_iter, notCall>>

\* one iteration of get_coupon's loop at the midpoint mid, out being what
\* get_price returns for it; a price within epsilon returns mid
BisectionStep(mid, out) ==
    /\ mid_coupon' = Some(mid)
    /\ product' = Some([Get(product) EXCEPT !.coupon_rate = mid])
    /\ cashflows' = out.cashflows
    /\ tried' = Append(tried, [coupon |-> mid, price |-> out.price])
    /\ iter' = iter + 1
    /\ IF Abs(out.price - target_price) < epsilon
       THEN /\ call_result' = Some([Get(call_result) EXCEPT !.coupon_callable = Some(mid)])
            /\ cpc' = "done"
            /\ UNCHANGED <<lower_bound, upper_bound>>
       ELSE /\ lower_bound' = IF out.price < target_price THEN mid ELSE lower_bound
            /\ upper_bound' = IF out.price < target_price THEN upper_bound ELSE mid
            /\ UNCHANGED <<call_result, cpc>>
    /\ UNCHANGED <<stochastic_process, max_iter, notCall>>

\* the body of get_coupon's loop
CouponIterate ==
    /\ cpc = "coupon"
    /\ iter < max_iter
    /\ BisectionStep(Div(lower_bound + upper_bound, 2),
                     get_price([Get(product) EXCEPT
                                   !.coupon_rate = Div(lower_bound + upper_bound, 2)],
                               Get(stochastic_process)))

\* the return of mid_coupon after the loop's last iteration
CouponExhausted ==
    /\ cpc = "coupon"
    /\ iter = max_iter
    /\ call_result' = Some([Get(call_result) EXCEPT !.coupon_callable = mid_coupon])
    /\ cpc' = "done"
    /\ UNCHANGED <<product, stochastic_process, max_iter, lower_bound, upper_bound,
                   mid_coupon, iter, tried, cashflows, notCall>>

CallCall ==
    \E d \in AutocallProducts, n \in 1..MaxIter :
        /\ d.observation_frequency = settings.obs_frequency
        /\ CallGetResults(d, n)

CallNext ==
    \/ CallCall
    \/ CallPrice
    \/ CouponIterate
    \/ CouponExhausted

(***************************************************************************)
(* Construction of stochastic processes                                    *)
(***************************************************************************)
ProcessClasses == {"BlackScholesProcess", "HestonProcess", "HestonProcessBis"}

\* cls(S0, T, nb_steps, ...) for an accepted S0, T and nb_steps, the other
\* parameters being a 20 percent volatility and the Heston parameters of the
\* pricing engine
new_process(cls, S0, T, nb_steps) ==
    IF cls = "BlackScholesProcess"
    THEN BlackScholesProcess(S0, T, nb_steps, [i \in 1..nb_steps |-> 300], 20)
    ELSE IF cls = "HestonProcess"
    THEN HestonProcess(S0, T, nb_steps, 300, 736, 8, 39, -17)
    ELSE HestonProcessBis(S0, 400, 300, 8, 736, 39, -17, T, nb_steps)

ProcessArgs ==
    [cls : ProcessClasses, S0 : {9000, 10000}, T : {-12, 0, 12, 24},
     nb_steps : (-MaxSteps)..MaxSteps]

\* no constructor was called yet
ProcStart ==
    /\ proc = None
    /\ proc_args = None
    /\ proc_error = None

\* process = cls(S0, T, nb_steps, ...): every subclass calls
\* StochasticProcess.__init__ first, and an exception leaves no object
ConstructProcess(a, base) ==
    /\ proc_args' = Some(a)
    /\ IF base.raised = ""
       THEN /\ proc' = Some(new_process(a.cls, a.S0, a.T, a.nb_steps))
            /\ proc_error' = None
       ELSE /\ proc' = None
            /\ proc_error' = Some(base.raised)
    /\ UNCHANGED notProc

ProcConstruct ==
    \E a \in ProcessArgs :
        ConstructProcess(a, StochasticProcess_init(a.S0, a.T, a.nb_steps))

ProcNext == ProcConstruct

(***************************************************************************)
(* Construction of options and structured products                         *)
(***************************************************************************)
\* classes whose constructor is AbstractOption.__init__ or only adds fields
PlainOptionClasses ==
    {"EuropeanCallOption", "EuropeanPutOption", "AsianCallOption",
     "AmericanCallOption", "BermudeanPutOption", "BinaryCallOption",
     "BasketCallOption"}

ParticipationClasses == {"TwinWin", "Airbag"}

AutocallClasses == {"Phoenix", "Eagle"}

ProductMaturities == {-12, 0, 12, 24}

ProductArgs ==
    [cls : PlainOptionClasses, maturity : ProductMaturities, strike : Strikes]
    \cup [cls : BarrierClasses, maturity : ProductMaturities, strike : Strikes,
          barrier : Barriers]
    \cup [cls : ParticipationClasses, maturity : ProductMaturities,
          upper_barrier : {80, 120}, lower_barrier : {80, 120}]
    \cup [cls : AutocallClasses, maturity : ProductMaturities,
          autocall_barrier : {100, 120}]

\* the abstract methods a class inherits and does not define: payoff and
\* description are abstract in AbstractStructuredProduct, and Phoenix and Eagle
\* define payoff only
abstract_methods(cls) == IF cls \in AutocallClasses THEN {"description"} ELSE {}

\* AbstractStructuredProduct.validate_inputs
validate_inputs(maturity) == IF maturity <= 0 THEN "ValueError" ELSE ""

\* TwinWin.__init__ / Airbag.__init__ after the base constructor returned
Participation_init(a) ==
    IF validate_inputs(a.maturity) # "" THEN validate_inputs(a.maturity)
    ELSE IF a.upper_barrier <= a.lower_barrier THEN "ValueError"
    ELSE ""

\* cls(...): the exception the call raises, "" when it returns the object.
\* ABCMeta refuses a class with abstract methods before __init__ runs.
Product_init(a) ==
    IF abstract_methods(a.cls) # {} THEN "TypeError"
    ELSE IF a.cls \in BarrierClasses
    THEN IF BarrierOption_init_ok(a.cls, a.maturity, a.strike, a.barrier)
         THEN "" ELSE "ValueError"
    ELSE IF a.cls \in ParticipationClasses THEN Participation_init(a)
    ELSE IF a.cls \in AutocallClasses THEN validate_inputs(a.maturity)
    ELSE IF AbstractOption_init_ok(a.maturity) THEN "" ELSE "ValueError"

\* no constructor was called yet
ProdStart ==
    /\ prod = None
    /\ prod_args = None
    /\ prod_error = None

\* product = cls(...): the constructors store their arguments as given
ConstructProduct(a, raised) ==
    /\ prod_args' = Some(a)
    /\ IF raised = ""
       THEN /\ prod' = Some(a)
            /\ prod_error' = None
       ELSE /\ prod' = None
            /\ prod_error' = Some(raised)
    /\ UNCHANGED notProd

ProdConstruct == \E a \in ProductArgs : ConstructProduct(a, Product_init(a))

ProdNext == ProdConstruct

(***************************************************************************)
(* Rate interpolators and volatility surfaces: calibration and queries     *)
(* A fitted parameter set is the number of the calibration run that fitted *)
(* it, so that a stale set differs from a fresh one.  Whether scipy's      *)
(* minimize, CubicSpline, interp1d or curve_fit succeeds on the data is    *)
(* the environment's choice.                                               *)
(***************************************************************************)
MaxSlices == 2
MaxRounds == 3

\* interpolators whose constructor fits them, and those with a calibrate method
FittedByConstructor ==
    {"LinearInterpolator", "market_data.CubicInterpolator", "market_data.LinearInterpolator",
     "NelsonSiegelInterpolator", "SvenssonInterpolator"}

CalibratedOnDemand == {"CubicInterpolator", "rate_curve_data.LinearInterpolator"}

InterpolatorClasses == FittedByConstructor \cup CalibratedOnDemand

\* cls(maturities, rates); fit_ok is whether the fit inside __init__ succeeds
Interpolator_init(cls, gen, fit_ok) ==
    IF cls \in FittedByConstructor
    THEN IF fit_ok THEN Some([cls |-> cls, interpolator |-> Some(gen)]) ELSE None
    ELSE Some([cls |-> cls, interpolator |-> None])

\* calibrate() of CubicInterpolator and of rate_curve_data's LinearInterpolator: the assignment happens only when CubicSpline returns
Cubic_calibrate(o, gen, fit_ok) ==
    IF fit_ok THEN [o EXCEPT !.interpolator = Some(gen)] ELSE o

\* interpolate(t): the exception raised, or the fit the value comes from
Interpolator_interpolate(o) ==
    IF o.cls \in CalibratedOnDemand /\ o.interpolator = None
    THEN [raised |-> "ValueError", value |-> None]
    ELSE [raised |-> "", value |-> o.interpolator]

\* SVIVolatilitySurface.__init__
SVI_init ==
    [svi_params_by_maturity |-> <<>>, interpolators |-> None, is_calibrated |-> FALSE]

\* SVIVolatilitySurface.calibrate_surface on n maturity slices; minimize fails
\* on slice fail_at when fail_at is in 1..n, interp1d raises when fail_at is
\* n + 1, and fail_at = 0 is a run without failure.  The result is the object
\* afterwards, the exception and the maturity its message names.
SVI_calibrate_surface(s, n, gen, fail_at) ==
    [surface |->
        [svi_params_by_maturity |->
            [m \in 1..(IF fail_at = 0 THEN n ELSE Min(n, fail_at - 1)) |-> gen],
         interpolators |-> IF fail_at = 0 THEN Some(gen) ELSE s.interpolators,
         is_calibrated |-> IF fail_at = 1 THEN s.is_calibrated ELSE TRUE],
     raised |-> IF fail_at = 0 THEN ""
                ELSE IF fail_at <= n THEN "Exception" ELSE "ValueError",
     maturity |-> IF fail_at \in 1..n THEN Some(fail_at) ELSE None]

\* SVIVolatilitySurface.get_volatility: min() of no key raises ValueError
SVI_get_volatility(s) ==
    IF s.interpolators = None THEN [raised |-> "Exception", value |-> None]
    ELSE IF DOMAIN s.svi_params_by_maturity = {}
    THEN [raised |-> "ValueError", value |-> None]
    ELSE [raised |-> "",
          value |-> Some([interpolators |-> Get(s.interpolators),
                          svi_params_by_maturity |-> s.svi_params_by_maturity])]

\* SSVIVolatilitySurface.__init__ with the optimiser's initial guess as parameters
SSVI_init_guess == [ssvi_ATM_params |-> None, ssvi_params |-> Some(0)]

\* SSVIVolatilitySurface.__init__
SSVI_init == [ssvi_ATM_params |-> None, ssvi_params |-> None]

\* SSVIVolatilitySurface.calibrate_atm_variance
SSVI_calibrate_atm_variance(s, gen, success) ==
    [surface |-> IF success THEN [s EXCEPT !.ssvi_ATM_params = Some(gen)] ELSE s,
     raised |-> IF success THEN "" ELSE "Exception"]

\* the second stage of SSVIVolatilitySurface.calibrate_surface, on the object
\* the first stage left
SSVI_second_stage(first, gen, success) ==
    IF first.raised # "" THEN first
    ELSE [surface |-> IF success THEN [first.surface EXCEPT !.ssvi_params = Some(gen)]
                      ELSE first.surface,
          raised |-> IF success THEN "" ELSE "Exception"]

\* SSVIVolatilitySurface.calibrate_surface
SSVI_calibrate_surface(s, gen, atm_success, success) ==
    SSVI_second_stage(SSVI_calibrate_atm_variance(s, gen, atm_success), gen, success)

\* SSVIVolatilitySurface.get_volatility with _get_atm_variance
SSVI_get_volatility(s) ==
    IF s.ssvi_params = None THEN [raised |-> "ValueError", value |-> None]
    ELSE IF s.ssvi_ATM_params = None THEN [raised |-> "ValueError", value |-> None]
    ELSE [raised |-> "", value |-> Some(<<Get(s.ssvi_ATM_params), Get(s.ssvi_params)>>)]

NoCall == [op |-> "", raised |-> "", maturity |-> None, value |-> None,
           before |-> FALSE, triggered |-> FALSE]

Call(op, raised, maturity, value, before, triggered) ==
    [op |-> op, raised |-> raised, maturity |-> maturity, value |-> value,
     before |-> before, triggered |-> triggered]

\* the surfaces are built on the option data; no interpolator exists yet
CalStart ==
    /\ interp = None
    /\ svi = SVI_init
    /\ ssvi = SSVI_init
    /\ local = None
    /\ nb_slices = 1
    /\ cal_round = 0
    /\ completed = [interp |-> FALSE, svi |-> FALSE, ssvi |-> FALSE]
    /\ svi_failed = FALSE
    /\ last_call = NoCall

\* interp = cls(maturities, rates)
CalNewInterpolator(cls, fit_ok) ==
    /\ interp = None
    /\ cal_round < MaxRounds
    /\ interp' = Interpolator_init(cls, cal_round + 1, fit_ok)
    /\ cal_round' = cal_round + 1
    /\ completed' = [completed EXCEPT !.interp = cls \in FittedByConstructor /\ fit_ok]
    /\ last_call' = Call("interpolator_init", IF interp' = None THEN "Exception" ELSE "",
                         None, None, FALSE, FALSE)
    /\ UNCHANGED <<svi, ssvi, local, nb_slices, svi_failed, notCal>>

\* interp.calibrate()
CalCubicCalibrate(fit_ok) ==
    /\ interp # None
    /\ Get(interp).cls \in CalibratedOnDemand
    /\ cal_round < MaxRounds
    /\ interp' = Some(Cubic_calibrate(Get(interp), cal_round + 1, fit_ok))
    /\ cal_round' = cal_round + 1
    /\ completed' = [completed EXCEPT !.interp = @ \/ fit_ok]
    /\ last_call' = Call("cubic_calibrate", IF fit_ok THEN "" ELSE "ValueError",
                         None, None, completed.interp, FALSE)
    /\ UNCHANGED <<svi, ssvi, local, nb_slices, svi_failed, notCal>>

\* interp.interpolate(t)
CalInterpolate ==
    /\ interp # None
    /\ last_call' = Call("interpolate", Interpolator_interpolate(Get(interp)).raised,
                         None, Interpolator_interpolate(Get(interp)).value,
                         completed.interp, FALSE)
    /\ UNCHANGED <<interp, svi, ssvi, local, nb_slices, cal_round, completed,
                   svi_failed, notCal>>

\* the effect of svi.calibrate_surface(), out being what it does to the object
SVICalibrated(op, out, before, triggered) ==
    /\ svi' = out.surface
    /\ cal_round' = cal_round + 1
    /\ completed' = [completed EXCEPT !.svi = @ \/ out.raised = ""]
    /\ svi_failed' = (out.raised # "")
    /\ last_call' = Call(op, out.raised, out.maturity, None, before, triggered)

\* svi.calibrate_surface()
CalSVICalibrate(fail_at) ==
    /\ cal_round < MaxRounds
    /\ SVICalibrated("svi_calibrate",
                     SVI_calibrate_surface(svi, nb_slices, cal_round + 1, fail_at),
                     completed.svi, FALSE)
    /\ UNCHANGED <<interp, ssvi, local, nb_slices, notCal>>

\* svi.get_volatility(strike, maturity)
CalSVIQuery ==
    /\ last_call' = Call("svi_get_volatility", SVI_get_volatility(svi).raised, None,
                         SVI_get_volatility(svi).value, completed.svi, FALSE)
    /\ UNCHANGED <<interp, svi, ssvi, local, nb_slices, cal_round, completed,
                   svi_failed, notCal>>

\* the effect of a calibration call on ssvi
SSVICalibrated(op, out, whole) ==
    /\ ssvi' = out.surface
    /\ cal_round' = cal_round + 1
    /\ completed' = [completed EXCEPT !.ssvi = @ \/ (whole /\ out.raised = "")]
    /\ last_call' = Call(op, out.raised, None, None, completed.ssvi, FALSE)
    /\ UNCHANGED <<interp, svi, local, nb_slices, svi_failed, notCal>>

\* ssvi.calibrate_atm_variance()
CalSSVIAtm(success) ==
    /\ cal_round < MaxRounds
    /\ SSVICalibrated("ssvi_calibrate_atm",
                      SSVI_calibrate_atm_variance(ssvi, cal_round + 1, success), FALSE)

\* ssvi.calibrate_surface()
CalSSVICalibrate(atm_success, success) ==
    /\ cal_round < MaxRounds
    /\ SSVICalibrated("ssvi_calibrate",
                      SSVI_calibrate_surface(ssvi, cal_round + 1, atm_success, success),
                      TRUE)

\* ssvi.get_volatility(strike, maturity)
CalSSVIQuery ==
    /\ last_call' = Call("ssvi_get_volatility", SSVI_get_volatility(ssvi).raised, None,
                         SSVI_get_volatility(ssvi).value, completed.ssvi, FALSE)
    /\ UNCHANGED <<interp, svi, ssvi, local, nb_slices, cal_round, completed,
                   svi_failed, notCal>>

\* local = LocalVolatilitySurface(option_data, rate_curve, svi): an svi that is
\* not is_calibrated is calibrated first, and an exception leaves no object
CalLocalInit(fail_at) ==
    /\ local = None
    /\ IF ~svi.is_calibrated
       THEN /\ cal_round < MaxRounds
            /\ SVICalibrated("local_init",
                             SVI_calibrate_surface(svi, nb_slices, cal_round + 1, fail_at),
                             svi_failed, TRUE)
            /\ local' = IF svi_failed' THEN None ELSE Some([svi_surface |-> svi'])
       ELSE /\ fail_at = 0
            /\ local' = Some([svi_surface |-> svi])
            /\ last_call' = Call("local_init", "", None, None, svi_failed, FALSE)
            /\ UNCHANGED <<svi, cal_round, completed, svi_failed>>
    /\ UNCHANGED <<interp, ssvi, nb_slices, notCal>>

CalInterpolatorNew ==
    \E cls \in InterpolatorClasses, fit_ok \in BOOLEAN : CalNewInterpolator(cls, fit_ok)

CalInterpolatorCalibrate == \E fit_ok \in BOOLEAN : CalCubicCalibrate(fit_ok)

CalSVI == \E fail_at \in 0..(nb_slices + 1) : CalSVICalibrate(fail_at)

CalSSVIStage == \E success \in BOOLEAN : CalSSVIAtm(success)

CalSSVI == \E atm_success \in BOOLEAN, success \in BOOLEAN :
               CalSSVICalibrate(atm_success, success)

CalLocal == \E fail_at \in 0..(nb_slices + 1) : CalLocalInit(fail_at)

CalNext ==
    \/ CalInterpolatorNew
    \/ CalInterpolatorCalibrate
    \/ CalInterpolate
    \/ CalSVI
    \/ CalSVIQuery
    \/ CalSSVIStage
    \/ CalSSVI
    \/ CalSSVIQuery
    \/ CalLocal

(***************************************************************************)
(* Market loaders: _fetch_yield_curves, _fetch_underlying_info and         *)
(* _fetch_volatility_surface.  A table is the set of its column names; a   *)
(* call ends in the exception raised, the column names its message lists,  *)
(* and the steps performed on the table.                                   *)
(***************************************************************************)
Loaders == {"yield_curve", "underlying", "option"}

\* required_columns of each loader, in the order of the code
required_columns(loader) ==
    CASE loader = "yield_curve" -> <<"Maturity", "Rate">>
      [] loader = "underlying" ->
             <<"Security Label", "Ticker", "ISIN", "Is Index", "Last Price">>
      [] loader = "option" -> <<"Maturity", "Implied Volatility", "Strike">>

\* [col for col in required_columns if col not in table.columns]
missing_columns(loader, columns) ==
    SelectSeq(required_columns(loader), LAMBDA col : col \notin columns)

\* the column names a table of each file may carry; the option file is in
\* wide format, one column per strike
ColumnsOf(loader) ==
    CASE loader = "yield_curve" -> {"Maturity", "Rate", "Pillar", "Date"}
      [] loader = "underlying" ->
             {"Security Label", "Ticker", "ISIN", "Is Index", "Last Price", "Currency"}
      [] loader = "option" -> {"Maturity", "90", "100", "110"}

Loaded(raised, missing, done) == [raised |-> raised, missing |-> missing, done |-> done]

\* Market._fetch_yield_curves on a file that exists
fetch_yield_curves(columns) ==
    IF missing_columns("yield_curve", columns) # <<>>
    THEN Loaded("ValueError", missing_columns("yield_curve", columns), <<>>)
    ELSE Loaded("", <<>>, <<"convert_maturities", "calibrate">>)

\* Market._fetch_underlying_info; found is whether a row carries the asset's name
fetch_underlying_info(columns, found) ==
    IF missing_columns("underlying", columns) # <<>>
    THEN Loaded("ValueError", missing_columns("underlying", columns), <<>>)
    ELSE IF ~found THEN Loaded("ValueError", <<>>, <<"select">>)
    ELSE Loaded("", <<>>, <<"select", "load_underlying_info">>)

\* pd.melt(option_data, id_vars=['Maturity'], var_name='Strike',
\*         value_name='Implied Volatility'): the columns of the result, or
\* KeyError when the id column is absent
melt(columns) ==
    IF "Maturity" \notin columns THEN [raised |-> "KeyError", columns |-> {}]
    ELSE [raised |-> "", columns |-> {"Maturity", "Strike", "Implied Volatility"}]

\* Market._fetch_volatility_surface on a file that exists: the table is melted
\* first, the columns of the melted table are checked next
fetch_volatility_surface(columns) ==
    IF melt(columns).raised # "" THEN Loaded(melt(columns).raised, <<>>, <<"melt">>)
    ELSE IF missing_columns("option", melt(columns).columns) # <<>>
    THEN Loaded("ValueError", missing_columns("option", melt(columns).columns), <<"melt">>)
    ELSE Loaded("", <<>>, <<"melt", "astype", "convert_maturities", "calibrate_surface">>)

LoadStart == load = None

\* the record kept of a loader call on a table with the given columns
LoadRecord(loader, columns, found, out) ==
    [loader |-> loader, columns |-> columns, found |-> found,
     raised |-> out.raised, missing |-> out.missing, done |-> out.done]

LoadYieldCurve ==
    \E columns \in SUBSET ColumnsOf("yield_curve") :
        /\ load = None
        /\ load' = Some(LoadRecord("yield_curve", columns, TRUE,
                                   fetch_yield_curves(columns)))
        /\ UNCHANGED notLoad

LoadUnderlying ==
    \E columns \in SUBSET ColumnsOf("underlying"), found \in BOOLEAN :
        /\ load = None
        /\ load' = Some(LoadRecord("underlying", columns, found,
                                   fetch_underlying_info(columns, found)))
        /\ UNCHANGED notLoad

LoadOption ==
    \E columns \in SUBSET ColumnsOf("option") :
        /\ load = None
        /\ load' = Some(LoadRecord("option", columns, TRUE,
                                   fetch_volatility_surface(columns)))
        /\ UNCHANGED notLoad

LoadNext == LoadYieldCurve \/ LoadUnderlying \/ LoadOption

(***************************************************************************)
(* Market._convert_maturities (and RateCurve._convert_maturities, the same *)
(* code).  A string is a sequence of characters; a year fraction is kept   *)
(* as numerator and denominator.                                           *)
(***************************************************************************)
MaxStr == 3

Digits == {"0", "1", "2"}

Units == {"M", "W", "Y"}

Chars == Digits \cup Units \cup {"x"}

Strings == UNION {[1..n -> Chars] : n \in 0..MaxStr}

digit(c) == CASE c = "0" -> 0 [] c = "1" -> 1 [] c = "2" -> 2

\* int(group) of a sequence of digits
RECURSIVE int(_)
int(ds) ==
    IF ds = <<>> THEN 0 ELSE 10 * int(SubSeq(ds, 1, Len(ds) - 1)) + digit(ds[Len(ds)])

\* the length of the longest prefix of s made of digits: what \d+ consumes
RECURSIVE digit_prefix(_)
digit_prefix(s) ==
    IF s = <<>> \/ Head(s) \notin Digits THEN 0 ELSE 1 + digit_prefix(Tail(s))

\* re.match(r"(\d+)([MWY])", s): the two groups, or None.  The pattern is
\* matched at the start of s and need not reach its end.
re_match(s) ==
    IF digit_prefix(s) >= 1 /\ Len(s) > digit_prefix(s)
       /\ s[digit_prefix(s) + 1] \in Units
    THEN Some(<<SubSeq(s, 1, digit_prefix(s)), s[digit_prefix(s) + 1]>>)
    ELSE None

\* _convert_maturities(maturity)
convert_maturities(s) ==
    IF re_match(s) = None THEN [raised |-> "ValueError"]
    ELSE [raised |-> "",
          num |-> int(Get(re_match(s))[1]),
          den |-> CASE Get(re_match(s))[2] = "W" -> 52
                    [] Get(re_match(s))[2] = "M" -> 12
                    [] Get(re_match(s))[2] = "Y" -> 1]

ConvStart == maturity_str = None /\ converted = None

\* Market._convert_maturities(s)
Convert(s) ==
    /\ maturity_str = None
    /\ maturity_str' = Some(s)
    /\ converted' = Some(convert_maturities(s))
    /\ UNCHANGED notConv

ConvNext == \E s \in Strings : Convert(s)

(***************************************************************************)
(* InterestRateSwap.  Dates are months from the emission, a year fraction  *)
(* is a number of half-years, a discount factor is in 1/100, a rate in     *)
(* 1/10000.  A leg value is in 1/(2 * 10^6) of the currency; a fixed rate  *)
(* and a price are fractions num/den, so that the par rate and the value   *)
(* of the fixed leg at the par rate are exact.                             *)
(***************************************************************************)
MaxCalls == 2

RECURSIVE GCD(_, _)
GCD(a, b) == IF b = 0 THEN a ELSE GCD(b, a % b)

\* a fraction with a positive denominator in lowest terms
RatNorm(a) ==
    Rat(Div(a.num, GCD(Max(a.num, -a.num), a.den)), Div(a.den, GCD(Max(a.num, -a.num), a.den)))

\* equality of two fractions with positive denominators
RatEq(a, b) == RatNorm(a) = RatNorm(b)

\* DayCounter.get_year_fraction between two dates, in half-years
year_fraction(start_date, end_date) == Div(end_date - start_date, 6)

\* Market.get_discount_factor in 1/100
swap_discount_factor(mkt, t) == Div(Market_get_discount_factor(mkt, t), 100)

\* InterestRateSwap.__init__ and set_market
InterestRateSwap(notional, maturity, fixed_rate, float_spread, interval, price, mkt) ==
    [notional |-> notional, start |-> 0, end |-> maturity, date |-> None,
     float_spread |-> float_spread, interval |-> interval,
     fixed_rate |-> fixed_rate, price |-> price, market |-> mkt, dates |-> <<>>]

\* the while loop of generate_payment_dates, from the date current
RECURSIVE payment_dates_from(_, _, _)
payment_dates_from(current, interval, end) ==
    IF current < end
    THEN <<current>> \o payment_dates_from(current + interval, interval, end)
    ELSE <<end>>

\* InterestRateSwap.generate_payment_dates
generate_payment_dates(sw) ==
    SelectSeq(payment_dates_from(sw.start + sw.interval, sw.interval, sw.end),
              LAMBDA d : d > Get(sw.date))

\* the loop of get_annuities over dates[i..], prev_date being the last date used
RECURSIVE annuities_from(_, _, _)
annuities_from(sw, i, prev_date) ==
    IF i > Len(sw.dates) THEN 0
    ELSE IF sw.dates[i] > Get(sw.date)
    THEN year_fraction(prev_date, sw.dates[i])
           * swap_discount_factor(sw.market, sw.dates[i] - Get(sw.date))
         + annuities_from(sw, i + 1, sw.dates[i])
    ELSE annuities_from(sw, i + 1, prev_date)

\* InterestRateSwap.get_annuities, in 1/200
get_annuities(sw) == annuities_from(sw, 1, sw.start)

\* the (prev_date, d) pairs that the loops of get_annuities and
\* float_leg_value pass to get_year_fraction, over dates[i..]
RECURSIVE accruals_from(_, _, _)
accruals_from(sw, i, prev_date) ==
    IF i > Len(sw.dates) THEN <<>>
    ELSE IF sw.dates[i] > Get(sw.date)
    THEN <<<<prev_date, sw.dates[i]>>>> \o accruals_from(sw, i + 1, sw.dates[i])
    ELSE accruals_from(sw, i + 1, prev_date)

\* prev_date = self.start, then the loop
accrual_periods(sw) == accruals_from(sw, 1, sw.start)

\* the forward rate of a period in float_leg_value, spread included
swap_forward_rate(sw, t1, t2) ==
    (IF t1 <= 0 THEN Div(Market_get_rate(sw.market, t2), 100)
     ELSE Market_get_fwd_rate(sw.market, t1, t2)) + sw.float_spread

\* the loop of float_leg_value over dates[i..]
RECURSIVE float_leg_from(_, _, _)
float_leg_from(sw, i, prev_date) ==
    IF i > Len(sw.dates) THEN 0
    ELSE IF sw.dates[i] > Get(sw.date)
    THEN sw.notional
           * swap_forward_rate(sw, prev_date - Get(sw.date), sw.dates[i] - Get(sw.date))
           * year_fraction(prev_date, sw.dates[i])
           * swap_discount_factor(sw.market, sw.dates[i] - Get(sw.date))
         + float_leg_from(sw, i + 1, sw.dates[i])
    ELSE float_leg_from(sw, i + 1, prev_date)

\* InterestRateSwap.float_leg_value, in 1/(2 * 10^6)
float_leg_value(sw) == float_leg_from(sw, 1, sw.start)

\* InterestRateSwap.fixed_leg_value, a fraction in 1/(2 * 10^6)
fixed_leg_value(sw) ==
    Rat(Get(sw.fixed_rate).num * sw.notional * get_annuities(sw), Get(sw.fixed_rate).den)

\* float_leg_value() - fixed_leg_value()
legs_difference(sw) ==
    Rat(float_leg_value(sw) * fixed_leg_value(sw).den - fixed_leg_value(sw).num,
        fixed_leg_value(sw).den)

\* InterestRateSwap.present_value
swap_present_value(sw) ==
    IF Get(sw.date) = sw.start THEN Rat(0, 1) ELSE legs_difference(sw)

\* InterestRateSwap.par_rate: the exception, or the rate
par_rate(sw) ==
    IF get_annuities(sw) = 0 THEN [raised |-> "ZeroDivisionError"]
    ELSE [raised |-> "",
          rate |-> Rat(float_leg_value(sw), sw.notional * get_annuities(sw))]

\* the object after the first two statements of calculate
swap_dated(sw, valuation_date) ==
    [[sw EXCEPT !.date = IF valuation_date = None THEN Some(sw.start) ELSE valuation_date]
        EXCEPT !.dates = generate_payment_dates(
            [sw EXCEPT !.date = IF valuation_date = None THEN Some(sw.start)
                                ELSE valuation_date])]

\* the object after "if self.fixed_rate is None: self.fixed_rate = self.par_rate()"
swap_rated(sw) ==
    IF sw.fixed_rate = None /\ par_rate(sw).raised = ""
    THEN [sw EXCEPT !.fixed_rate = Some(par_rate(sw).rate)] ELSE sw

\* the object after "if self.price is None: self.price = self.present_value()"
swap_priced(sw) ==
    IF sw.price = None THEN [sw EXCEPT !.price = Some(swap_present_value(sw))] ELSE sw

\* InterestRateSwap.calculate(valuation_date): the object afterwards
swap_calculate(sw, valuation_date) ==
    IF swap_rated(swap_dated(sw, valuation_date)).fixed_rate = None
    THEN swap_dated(sw, valuation_date)
    ELSE swap_priced(swap_rated(swap_dated(sw, valuation_date)))

SwapArgs ==
    [notional : {2}, maturity : {12, 24},
     fixed_rate : {None, Some(Rat(400, 1))}, float_spread : {0, 50},
     interval : {6, 12}, price : {None, Some(Rat(0, 1))}, market : Markets]

\* valuation dates from the emission to after the maturity, None being the default
ValuationDates == {None, Some(0), Some(6), Some(12), Some(24), Some(30)}

SwapStart == swap = None /\ swap_calls = 0 /\ swap_ret = None /\ swap_args = None

\* swap = InterestRateSwap(...); swap.set_market(market)
SwapConstruct ==
    \E a \in SwapArgs :
        /\ swap = None
        /\ swap' = Some(InterestRateSwap(a.notional, a.maturity, a.fixed_rate,
                                         a.float_spread, a.interval, a.price, a.market))
        /\ swap_args' = Some(a)
        /\ UNCHANGED <<swap_calls, swap_ret, notSwap>>

\* swap.calculate(valuation_date)
SwapCalculate ==
    \E valuation_date \in ValuationDates :
        /\ swap # None
        /\ swap_calls < MaxCalls
        /\ swap' = Some(swap_calculate(Get(swap), valuation_date))
        /\ swap_calls' = swap_calls + 1
        /\ swap_ret' =
               Some(IF Get(swap').fixed_rate = None
                    THEN [raised |-> "ZeroDivisionError", rate_given |-> FALSE]
                    ELSE [raised |-> "", price |-> Get(Get(swap').price),
                          fixed_rate |-> Get(Get(swap').fixed_rate),
                          rate_given |-> Get(swap).fixed_rate # None])
        /\ UNCHANGED <<swap_args, notSwap>>

SwapNext == SwapConstruct \/ SwapCalculate

(***************************************************************************)
(* CouponBond.  Dates are months from the emission, a time is a number of  *)
(* half-years, a yield and a coupon rate are in percent, a compounding     *)
(* factor is in 1/1000, an amount in units of the currency.  The day count *)
(* is ACT/360 on months of 30 days.                                        *)
(***************************************************************************)
\* the search interval of brentq(func, -0.5, 1.0), in percent
YtmLo == -50

YtmHi == 100

\* CouponBond.__init__: the exception, or the object
CouponBond(notional, maturity, coupon_rate, frequency, price, ytm) ==
    IF price = None /\ ytm = None THEN [raised |-> "ValueError"]
    ELSE [raised |-> "", notional |-> notional, start |-> 0, end |-> maturity,
          date |-> None, frequency |-> frequency, coupon_rate |-> coupon_rate,
          intervalle |-> Div(12, frequency), ytm |-> ytm, price |-> price]

\* the while loop of date_coupons, from the date current
RECURSIVE coupons_from(_, _, _)
coupons_from(current, intervalle, end) ==
    IF current <= end - intervalle
    THEN <<current>> \o coupons_from(current + intervalle, intervalle, end)
    ELSE <<end>>

\* CouponBond.date_coupons
date_coupons(b) == coupons_from(b.start + b.intervalle, b.intervalle, b.end)

\* [c for c in self.coupons if c > self.date]
future_coupons(b) == SelectSeq(date_coupons(b), LAMBDA c : c > Get(b.date))

\* max((c for c in self.coupons if c <= self.date), default=self.start)
last_coupon(b) ==
    IF SelectSeq(date_coupons(b), LAMBDA c : c <= Get(b.date)) = <<>> THEN b.start
    ELSE SelectSeq(date_coupons(b), LAMBDA c : c <= Get(b.date))[
             Len(SelectSeq(date_coupons(b), LAMBDA c : c <= Get(b.date)))]

\* CouponBond.accrued_interest under ACT/360: days_since / 360, in half-years,
\* on dates in whole months (the day count on calendar dates, with the day
\* added to the last coupon date, is accrued_interest_fraction)
accrued_interest(b) == Div(Get(b.date) - last_coupon(b), 6)

\* times[i] of present_value, i from 0, in half-years
bond_time(b, i) == (2 - accrued_interest(b)) + i * Div(2, b.frequency)

\* (1 + ytm) ** 0.5 in 1/1000
half_year_factor(ytm) == ISqrtIn((1000 + 10 * ytm) * 1000, 0, 2000)

\* (1 + ytm) ** t for t half-years, in 1/1000
RECURSIVE compound(_, _)
compound(ytm, t) ==
    IF t <= 0 THEN 1000 ELSE Div(compound(ytm, t - 1) * half_year_factor(ytm), 1000)

\* sum(coupon_rate * notional / (1 + ytm) ** t for t in times[i..])
RECURSIVE pv_coupons_from(_, _, _)
pv_coupons_from(b, ytm, i) ==
    IF i >= Len(future_coupons(b)) THEN 0
    ELSE Div(Div(b.coupon_rate * b.notional, 100) * 1000, compound(ytm, bond_time(b, i)))
         + pv_coupons_from(b, ytm, i + 1)

\* CouponBond.present_value(ytm)
bond_present_value(b, ytm) ==
    pv_coupons_from(b, ytm, 0)
    + (IF future_coupons(b) # <<>>
       THEN Div(b.notional * 1000,
                compound(ytm, bond_time(b, Len(future_coupons(b)) - 1)))
       ELSE 0)

\* func of compute_ytm with the face value as target
bond_func_par(b, ytm) == bond_present_value(b, ytm) - b.notional

\* func = lambda ytm: self.present_value(ytm) - self.price
bond_func(b, ytm) == bond_present_value(b, ytm) - Get(b.price)

\* the iteration of brentq on a bracket [lo, hi] over which func changes sign:
\* the bracket is narrowed to one step of the grid and its lower end returned
RECURSIVE brentq_from(_, _, _)
brentq_from(b, lo, hi) ==
    IF bond_func(b, lo) = 0 THEN lo
    ELSE IF bond_func(b, hi) = 0 THEN hi
    ELSE IF hi - lo <= 1 THEN lo
    ELSE IF bond_func(b, lo) * bond_func(b, lo + Div(hi - lo, 2)) <= 0
    THEN brentq_from(b, lo, lo + Div(hi - lo, 2))
    ELSE brentq_from(b, lo + Div(hi - lo, 2), hi)

\* brentq(func, a, c): ValueError when func has the same sign at both ends
brentq(b, lo, hi) ==
    IF bond_func(b, lo) * bond_func(b, hi) > 0 THEN [raised |-> "ValueError"]
    ELSE [raised |-> "", root |-> brentq_from(b, lo, hi)]

\* CouponBond.compute_ytm
compute_ytm(b) == brentq(b, YtmLo, YtmHi)

\* the object after the date and the price statements of calculate
bond_priced(b, valuation_date) ==
    IF b.price # None
    THEN [b EXCEPT !.date = IF valuation_date = None THEN Some(b.start) ELSE valuation_date]
    ELSE [b EXCEPT !.date = IF valuation_date = None THEN Some(b.start) ELSE valuation_date,
                   !.price = Some(bond_present_value(
                       [b EXCEPT !.date = IF valuation_date = None THEN Some(b.start)
                                          ELSE valuation_date], Get(b.ytm)))]

\* CouponBond.calculate(valuation_date): the object afterwards
bond_calculate(b, valuation_date) ==
    IF bond_priced(b, valuation_date).ytm = None
       /\ compute_ytm(bond_priced(b, valuation_date)).raised = ""
    THEN [bond_priced(b, valuation_date) EXCEPT
              !.ytm = Some(compute_ytm(bond_priced(b, valuation_date)).root)]
    ELSE bond_priced(b, valuation_date)

BondArgs ==
    [notional : {1000}, maturity : {12, 24}, coupon_rate : {0, 5}, frequency : {1, 2},
     price : {None, Some(100), Some(950), Some(1000), Some(1100), Some(5000)},
     ytm : {None, Some(4)}]

BondDates == {None, Some(0), Some(6), Some(12), Some(24)}

BondStart == bond = None /\ bond_error = None /\ bond_ret = None

\* bond = CouponBond(...)
BondConstruct ==
    \E a \in BondArgs :
        /\ bond = None /\ bond_error = None
        /\ bond' = IF CouponBond(a.notional, a.maturity, a.coupon_rate, a.frequency,
                                 a.price, a.ytm).raised = ""
                   THEN Some(CouponBond(a.notional, a.maturity, a.coupon_rate,
                                        a.frequency, a.price, a.ytm))
                   ELSE None
        /\ bond_error' = IF bond' = None THEN Some("ValueError") ELSE None
        /\ UNCHANGED <<bond_ret, notBond>>

\* bond.calculate(valuation_date)
BondCalculate ==
    \E valuation_date \in BondDates :
        /\ bond # None /\ bond_ret = None
        /\ bond' = Some(bond_calculate(Get(bond), valuation_date))
        /\ bond_ret' =
               Some(IF Get(bond').ytm = None
                    THEN [raised |-> "ValueError", from_price |-> TRUE]
                    ELSE [raised |-> "", price |-> Get(Get(bond').price),
                          ytm |-> Get(Get(bond').ytm),
                          from_price |-> Get(bond).ytm = None])
        /\ UNCHANGED <<bond_error, notBond>>

BondNext == BondConstruct \/ BondCalculate

(***************************************************************************)
(* LocalVolatilitySurface.get_volatility.  The derivatives come from       *)
(* _option_price, whose values are numpy float64: a division by zero gives *)
(* inf or nan and raises nothing.  A float is finite with a value in       *)
(* 1/100, or inf with a sign, or nan.                                      *)
(***************************************************************************)
Finite(v) == [kind |-> "finite", v |-> v]

Inf(sign) == [kind |-> "inf", v |-> sign]

NaN == [kind |-> "nan", v |-> 0]

\* numerator / denominator on float64 values
np_divide(numerator, denominator) ==
    IF denominator # 0 THEN Finite(Div(numerator * 100, denominator))
    ELSE IF numerator > 0 THEN Inf(1)
    ELSE IF numerator < 0 THEN Inf(-1)
    ELSE NaN

\* max(x, 0) of Python: x unless 0 > x, and no comparison with nan is true
max_with_zero(x) ==
    IF x.kind = "nan" THEN x
    ELSE IF x.v < 0 THEN Finite(0)
    ELSE x

\* np.sqrt on a float that is not negative
np_sqrt(x) == IF x.kind = "finite" THEN Finite(ISqrtIn(x.v * 100, 0, 40000)) ELSE x

\* numerator = dC_dT + r * strike * dC_dK, r in percent
dupire_numerator(a) == a.dC_dT + Div(a.r * a.strike * a.dC_dK, 100)

\* denominator = 0.5 * strike**2 * d2C_dK2
dupire_denominator(a) == Div(a.strike * a.strike * a.d2C_dK2, 2)

\* LocalVolatilitySurface.get_volatility from the derivatives
LocalVolatilitySurface_get_volatility(a) ==
    np_sqrt(max_with_zero(np_divide(dupire_numerator(a), dupire_denominator(a))))

\* derivatives of the call price in 1/100, the rate in percent
DupireArgs ==
    [dC_dK : {-50, 0}, d2C_dK2 : {-2, 0, 2, 4}, dC_dT : {-100, 0, 100, 400},
     r : {0, 5}, strike : {1, 100}]

DupireStart == dupire_args = None /\ dupire_ret = None

\* local.get_volatility(strike, maturity)
DupireGetVolatility ==
    \E a \in DupireArgs :
        /\ dupire_args = None
        /\ dupire_args' = Some(a)
        /\ dupire_ret' = Some(LocalVolatilitySurface_get_volatility(a))
        /\ UNCHANGED notDupire

DupireNext == DupireGetVolatility

(***************************************************************************)
(* Strangle and Collar (kernel/products/options_strategies).  second and   *)
(* third are the second and third positional arguments of the constructor. *)
(***************************************************************************)
\* Strangle.__init__(maturity, strike_put, strike_call, position_call, position_put)
Strangle(maturity, strike_put, strike_call, position_call, position_put) ==
    [cls |-> "Strangle",
     options |-> <<<<[cls |-> "EuropeanCallOption", maturity |-> maturity,
                      strike |-> strike_call], position_call>>,
                   <<[cls |-> "EuropeanPutOption", maturity |-> maturity,
                      strike |-> strike_put], position_put>>>>]

\* Collar.__init__(maturity, strike_put, strike_call, position_call, position_put)
Collar(maturity, strike_put, strike_call, position_call, position_put) ==
    [cls |-> "Collar",
     options |-> <<<<[cls |-> "EuropeanCallOption", maturity |-> maturity,
                      strike |-> strike_call], position_call>>,
                   <<[cls |-> "EuropeanPutOption", maturity |-> maturity,
                      strike |-> strike_put], position_put>>>>]

\* the loop of AbstractOptionStrategy.payoff over options[i..]
RECURSIVE strategy_payoff_from(_, _, _)
strategy_payoff_from(legs, p, i) ==
    IF i > Len(legs) THEN 0
    ELSE (IF legs[i][2]
          THEN vanilla_payoff(legs[i][1].cls = "EuropeanCallOption", legs[i][1].strike, p)
          ELSE -vanilla_payoff(legs[i][1].cls = "EuropeanCallOption", legs[i][1].strike, p))
         + strategy_payoff_from(legs, p, i + 1)

\* AbstractOptionStrategy.payoff(path)
strategy_payoff(strategy, p) == strategy_payoff_from(strategy.options, p, 1)

StrategyArgs ==
    [cls : {"Strangle", "Collar"}, maturity : {12}, second : {9000, 11000},
     third : {9000, 11000}, position_call : BOOLEAN, position_put : BOOLEAN]

\* paths that end below, between and above the strikes
StrategyPaths == {<<10000, s>> : s \in {8000, 10000, 10500, 12000}}

StratStart == strat = None /\ strat_payoff = None

\* strategy = Strangle(maturity, second, third, position_call=..., position_put=...)
\* or Collar(...) with the same arguments
StratConstruct ==
    \E a \in StrategyArgs :
        /\ strat = None
        /\ strat' = Some([args |-> a,
                          strategy |->
                              IF a.cls = "Strangle"
                              THEN Strangle(a.maturity, a.second, a.third,
                                            a.position_call, a.position_put)
                              ELSE Collar(a.maturity, a.second, a.third,
                                          a.position_call, a.position_put)])
        /\ UNCHANGED <<strat_payoff, notStrat>>

\* strategy.payoff(path)
StratPayoff ==
    \E p \in StrategyPaths :
        /\ strat # None /\ strat_payoff = None
        /\ strat_payoff' = Some([path |-> p,
                                 value |-> strategy_payoff(Get(strat).strategy, p)])
        /\ UNCHANGED <<strat, notStrat>>

StratNext == StratConstruct \/ StratPayoff

(***************************************************************************)
(* American / Bermudan Monte-Carlo engine                                  *)
(* (kernel/models/pricing_engines/american_mc_pricing_engine.py).  Times   *)
(* are in months, prices in 1/100, discount factors in 1/10000.            *)
(***************************************************************************)
\* the longest run of the backward induction: nb_steps in 2..MaxSteps + 1
LsmSteps == 2 .. MaxSteps + 1

\* AmericanCallOption, AmericanPutOption (exercise_times = None) and
\* BermudeanCallOption, BermudeanPutOption (americain_options.py)
AmericanOption(cls, strike, T, exercise_times) ==
    [cls |-> cls, strike |-> strike, maturity |-> T,
     exercise_times |-> exercise_times]

\* AmericanCallOption.instrinsec_payoff, AmericanPutOption.instrinsec_payoff
instrinsec_payoff(opt, S) ==
    IF opt.cls \in {"AmericanCallOption", "BermudeanCallOption"}
    THEN Max(S - opt.strike, 0)
    ELSE Max(opt.strike - S, 0)

\* exercise_indices = None, or set(int(t_ex / dt) for t_ex in exercise_times)
exercise_indices(opt, dt) ==
    IF opt.exercise_times = None
    THEN None
    ELSE Some({Div(t_ex, dt) : t_ex \in Get(opt.exercise_times)})

\* Market.get_fwd_discount_factor(t1, t2): the discount factor between two
\* maturities that the curve implies
Market_get_fwd_discount_factor(mkt, t1, t2) ==
    Div(Market_get_discount_factor(mkt, t2) * 10000,
        Market_get_discount_factor(mkt, t1))

\* one entry of CF: the payoff taken at a column of the path array, the
\* discount factors it has been multiplied by since (each as the interval
\* it covers, in application order), and the resulting value
Cashflow(amount, column) ==
    [amount |-> amount, column |-> column, intervals |-> <<>>,
     value |-> amount]

\* CF * df, where df covers [t1, t2]
discount_over(cf, df, t1, t2) ==
    [cf EXCEPT !.value = Div(@ * df, 10000),
               !.intervals = Append(@, <<t1, t2>>)]

\* np.linalg.lstsq on the basis [1, S, S^2] over the in-the-money paths and
\* the fitted value of path p: with at most three distinct prices the basis
\* spans every function of the price, and the fit at a price is the mean of
\* Y over the in-the-money paths at that price
cont_val(paths, t, in_money, discounted_CF, p) ==
    LET same == {q \in in_money : paths[q][t + 1] = paths[p][t + 1]}
        ordered == CHOOSE s \in [1 .. Cardinality(same) -> same] :
                       \A i, j \in DOMAIN s : i # j => s[i] # s[j]
    IN  Div(SumSeq([i \in DOMAIN ordered |-> discounted_CF[ordered[i]].value]),
            Cardinality(same))

\* one turn of "for t in range(self.nb_steps - 2, -1, -1)": the cashflows
\* after it
lsm_step(run, cfs, t) ==
    LET dt == Div(run.derivative.maturity, run.nb_steps)
        df_forward ==
            Market_get_fwd_discount_factor(run.market, dt * (t + 1), dt * (t + 2))
        discounted_CF ==
            [p \in DOMAIN cfs |->
                discount_over(cfs[p], df_forward, dt * (t + 1), dt * (t + 2))]
        indices == exercise_indices(run.derivative, dt)
        immediate ==
            [p \in DOMAIN cfs |->
                instrinsec_payoff(run.derivative, run.paths[p][t + 1])]
        in_money == {p \in DOMAIN cfs : immediate[p] > 0}
    IN  IF indices = None \/ t \in Get(indices)
        THEN [p \in DOMAIN cfs |->
                 IF /\ p \in in_money
                    /\ immediate[p] >=
                           cont_val(run.paths, t, in_money, discounted_CF, p)
                 THEN Cashflow(immediate[p], t)
                 ELSE discounted_CF[p]]
        ELSE discounted_CF

\* the test of line 53 at index t
considered(run, t) ==
    LET indices ==
            exercise_indices(run.derivative,
                             Div(run.derivative.maturity, run.nb_steps))
    IN  indices = None \/ t \in Get(indices)

\* American and Bermudan calls and puts of one year, at and in the money;
\* the exercise times are before the maturity, as pricing_web/views.py
\* builds them
LsmOptions ==
    {AmericanOption(cls, strike, 12, None) :
        cls \in {"AmericanCallOption", "AmericanPutOption"},
        strike \in {10000, 11000}}
    \cup
    {AmericanOption(cls, 10000, 12, Some(times)) :
        cls \in {"BermudeanCallOption", "BermudeanPutOption"},
        times \in {{6}, {8}, {4, 8}}}

\* the arrays simulate_paths can return: nb_steps + 1 columns, the first
\* one the spot
LsmPaths(nb_paths, nb_steps) ==
    {a \in [1 .. nb_paths -> [1 .. nb_steps + 1 -> {8000, 10000, 12000}]] :
        \A p \in 1 .. nb_paths :
            /\ a[p][1] = 10000
            /\ \A i \in 2 .. nb_steps + 1 : a[p][i] # 10000}

AmerStart ==
    /\ lsm = None /\ lsm_t = 0 /\ CF = <<>> /\ decided = <<>>
    /\ lsm_pc = "idle" /\ lsm_price = None

\* _get_price up to the loop: the paths and CF = instrinsec_payoff(paths[:, -1])
AmerGetPrice ==
    \E opt \in LsmOptions, mkt \in Markets, nb_steps \in LsmSteps,
       nb_paths \in 1 .. MaxPaths :
        \E paths \in LsmPaths(nb_paths, nb_steps) :
            /\ lsm_pc = "idle"
            /\ lsm' = Some([derivative |-> opt, market |-> mkt,
                            nb_steps |-> nb_steps, paths |-> paths])
            /\ CF' = [p \in 1 .. nb_paths |->
                         Cashflow(instrinsec_payoff(opt, paths[p][nb_steps + 1]),
                                  nb_steps)]
            /\ lsm_t' = nb_steps - 2
            /\ decided' = <<>>
            /\ lsm_pc' = "loop"
            /\ UNCHANGED <<lsm_price, notAmer>>

\* one turn of the loop
AmerStep ==
    /\ lsm_pc = "loop"
    /\ lsm_t >= 0
    /\ CF' = lsm_step(Get(lsm), CF, lsm_t)
    /\ decided' = IF considered(Get(lsm), lsm_t)
                  THEN Append(decided, lsm_t)
                  ELSE decided
    /\ lsm_t' = lsm_t - 1
    /\ UNCHANGED <<lsm, lsm_pc, lsm_price, notAmer>>

\* return self.market.get_discount_factor(dt) * np.mean(CF)
AmerReturn ==
    /\ lsm_pc = "loop"
    /\ lsm_t < 0
    /\ LET run == Get(lsm)
           dt == Div(run.derivative.maturity, run.nb_steps)
           df == Market_get_discount_factor(run.market, dt)
           final == [p \in DOMAIN CF |-> discount_over(CF[p], df, 0, dt)]
       IN  /\ CF' = final
           /\ lsm_price' =
                  Some(Div(SumSeq([p \in DOMAIN final |-> final[p].value]),
                           Len(final)))
    /\ lsm_pc' = "done"
    /\ UNCHANGED <<lsm, lsm_t, decided, notAmer>>

AmerNext == AmerGetPrice \/ AmerStep \/ AmerReturn

(***************************************************************************)
(* MCPricingEngine.get_stochastic_process on instruments with a strike,    *)
(* with strike = None and without a strike attribute, under supported and  *)
(* unsupported models.  A strike is Some(k) or None here.                  *)
(***************************************************************************)
\* lines 90-93: K = derivative.strike if hasattr(derivative, "strike"), the
\* market spot otherwise
strike_or_spot(d, mkt) ==
    IF "strike" \in DOMAIN d
    THEN d.strike
    ELSE Some(mkt.underlying_asset.last_price)

\* get_stochastic_process(derivative, market): what it looked the volatility
\* up at, and what it raised or returned.  market.get_volatility(None, T)
\* fails in every surface on the first arithmetic with the strike.
stochastic_process_call(d, mkt) ==
    LET K == strike_or_spot(d, mkt)
    IN  IF K = None
        THEN [derivative |-> d, K |-> K, raised |-> Some("TypeError"),
              returned |-> None]
        ELSE [derivative |-> d, K |-> K, raised |-> None,
              returned |->
                  get_stochastic_process(
                      [maturity |-> d.maturity, strike |-> Get(K)], mkt)]

\* AbstractOption(maturity, strike), AbstractOption(maturity) whose strike is
\* the default None, and a structured product, which has no strike attribute
StrikeCases ==
    {[cls |-> "EuropeanCallOption", maturity |-> 12, strike |-> k] :
        k \in {Some(10000), Some(10500), None}}
    \cup
    {[cls |-> c, maturity |-> m] : c \in {"Phoenix", "Eagle"}, m \in {12, 24}}

\* the two models the method knows and one it does not
ModelNames == {"BLACK_SCHOLES", "HESTON", "SABR"}

GspSettings ==
    [nb_paths : {MaxPaths}, nb_steps : {1, MaxSteps}, random_seed : Seeds,
     enable_greeks : {FALSE}, model : ModelNames]

GspStart == gsp = None

\* process = self.get_stochastic_process(derivative=derivative, market=self.market)
GspCall ==
    \E d \in StrikeCases :
        /\ gsp' = Some(stochastic_process_call(d, market))
        /\ UNCHANGED notGsp

GspNext == GspCall

(***************************************************************************)
(* CouponBond.accrued_interest on calendar dates (kernel/products/rate/    *)
(* bond.py).  A date is a (year, month, day) of the Gregorian calendar; the *)
(* bonds are emitted in 2024.                                               *)
(***************************************************************************)
\* the longest bond, in years
MaxYears == 2

Date(y, m, d) == [year |-> y, month |-> m, day |-> d]

\* calendar.isleap
is_leap(y) == y % 4 = 0 /\ (y % 100 # 0 \/ y % 400 = 0)

days_in_month(y, m) ==
    IF m = 2 THEN (IF is_leap(y) THEN 29 ELSE 28)
    ELSE IF m \in {4, 6, 9, 11} THEN 30 ELSE 31

RECURSIVE days_before_year(_)
days_before_year(y) ==
    IF y <= 2024 THEN 0
    ELSE (IF is_leap(y - 1) THEN 366 ELSE 365) + days_before_year(y - 1)

RECURSIVE days_before_month(_, _)
days_before_month(y, m) ==
    IF m = 1 THEN 0 ELSE days_in_month(y, m - 1) + days_before_month(y, m - 1)

\* the number of the day, 2024-01-01 being day 1: (a - b).days is
\* toordinal(a) - toordinal(b)
toordinal(dt) ==
    days_before_year(dt.year) + days_before_month(dt.year, dt.month) + dt.day

\* dt + relativedelta(months=k): the day is cut to the length of the month
add_months(dt, k) ==
    LET n == dt.year * 12 + dt.month - 1 + k
    IN  Date(n \div 12, (n % 12) + 1,
             Min(dt.day, days_in_month(n \div 12, (n % 12) + 1)))

\* dt + relativedelta(days=1)
next_day(dt) ==
    IF dt.day < days_in_month(dt.year, dt.month)
    THEN Date(dt.year, dt.month, dt.day + 1)
    ELSE IF dt.month < 12 THEN Date(dt.year, dt.month + 1, 1)
         ELSE Date(dt.year + 1, 1, 1)

\* the loop of CouponBond.date_coupons from current on, and the append of
\* self.end after it
RECURSIVE coupon_dates_from(_, _, _)
coupon_dates_from(current, intervalle, end) ==
    IF toordinal(current) <= toordinal(add_months(end, -intervalle))
    THEN <<current>> \o
         coupon_dates_from(add_months(current, intervalle), intervalle, end)
    ELSE <<end>>

\* CouponBond.__init__ and the date a calculate has set
DatedBond(emission, end, frequency, convention, date) ==
    [start |-> emission, end |-> end, frequency |-> frequency,
     convention |-> convention, date |-> date,
     coupons |-> coupon_dates_from(add_months(emission, 12 \div frequency),
                                   12 \div frequency, end)]

\* the latest (latest = TRUE) or earliest date of a set that is not empty
extreme_date(dates, latest) ==
    CHOOSE m \in dates :
        \A d \in dates : IF latest THEN toordinal(d) <= toordinal(m)
                         ELSE toordinal(m) <= toordinal(d)

\* max((c for c in self.coupons if c <= self.date), default=self.start)
\* + relativedelta(days=1)
accrual_start(b) ==
    LET past == {b.coupons[i] : i \in {j \in DOMAIN b.coupons :
                     toordinal(b.coupons[j]) <= toordinal(b.date)}}
    IN  next_day(IF past = {} THEN b.start ELSE extreme_date(past, TRUE))

\* min((c for c in self.coupons if c > self.date), default=self.end)
next_coupon(b) ==
    LET future == {b.coupons[i] : i \in {j \in DOMAIN b.coupons :
                       toordinal(b.coupons[j]) > toordinal(b.date)}}
    IN  IF future = {} THEN b.end ELSE extreme_date(future, FALSE)

\* days_since of CouponBond.accrued_interest under each convention
days_since(b) ==
    LET lc == accrual_start(b)
    IN  IF b.convention = "30/360"
        THEN 360 * (b.date.year - lc.year) + 30 * (b.date.month - lc.month)
             + (Min(b.date.day, 30) - Min(lc.day, 30))
        ELSE toordinal(b.date) - toordinal(lc)

\* total_days of CouponBond.accrued_interest under each convention
total_days(b) ==
    LET lc == accrual_start(b)
        nc == next_coupon(b)
    IN  CASE b.convention = "Actual/360" -> 360
          [] b.convention = "Actual/365" -> 365
          [] b.convention = "30/360" ->
                 360 * (nc.year - lc.year) + 30 * (nc.month - lc.month)
                 + (Min(nc.day, 30) - Min(lc.day, 30))
          [] b.convention = "Actual/Actual" -> IF is_leap(lc.year) THEN 366 ELSE 365

\* CouponBond.accrued_interest: days_since / total_days if total_days else 0,
\* as the fraction num / den
accrued_interest_fraction(b) ==
    IF total_days(b) # 0
    THEN [num |-> days_since(b), den |-> total_days(b)]
    ELSE [num |-> 0, den |-> 1]

\* the times of present_value: (1 - accrued_interest()) + i / frequency for
\* every future coupon, each as a numerator over den * frequency
discounting_times(b) ==
    LET f == accrued_interest_fraction(b)
        future == {j \in DOMAIN b.coupons :
                       toordinal(b.coupons[j]) > toordinal(b.date)}
    IN  [i \in 1 .. Cardinality(future) |->
            (f.den - f.num) * b.frequency + (i - 1) * f.den]

\* the four values of CalendarConvention
Conventions == {"Actual/360", "Actual/365", "Actual/Actual", "30/360"}

\* bonds emitted mid-month and at a month's end
Emissions == {Date(2024, 1, 15), Date(2024, 8, 31)}

\* every day from the emission to the maturity
DaysOf(emission, end) ==
    {dt \in {Date(y, m, d) : y \in 2024 .. 2024 + MaxYears + 1, m \in 1 .. 12,
                             d \in 1 .. 31} :
        /\ dt.day <= days_in_month(dt.year, dt.month)
        /\ toordinal(emission) <= toordinal(dt)
        /\ toordinal(dt) <= toordinal(end)}

AccStart == cbond = None /\ accrued = None

\* bond = CouponBond(notional, emission, maturity, coupon_rate, frequency,
\* calendar_convention, ...), before any calculate
AccConstruct ==
    \E emission \in Emissions, years \in 1 .. MaxYears, frequency \in {1, 2, 4},
       convention \in Conventions :
        /\ cbond = None
        /\ cbond' = Some(DatedBond(emission, add_months(emission, 12 * years),
                                   frequency, convention, None))
        /\ UNCHANGED <<accrued, notAcc>>

\* calculate(valuation_date) sets self.date, and present_value asks for
\* accrued_interest() and builds its times
AccCalculate ==
    /\ cbond # None
    /\ Get(cbond).date = None
    /\ \E valuation_date \in DaysOf(Get(cbond).start, Get(cbond).end) :
           /\ cbond' = Some([Get(cbond) EXCEPT !.date = valuation_date])
           /\ accrued' =
                  Some([f |-> accrued_interest_fraction(Get(cbond')),
                        times |-> discounting_times(Get(cbond'))])
    /\ UNCHANGED notAcc

AccNext == AccConstruct \/ AccCalculate

(***************************************************************************)
(* Specifications                                                          *)
(***************************************************************************)
BarrierInit == BarrierStart /\ AggStart /\ HestonStart /\ MCStart /\ CallStart /\ ProcStart /\ ProdStart /\ CalStart /\ LoadStart /\ ConvStart /\ SwapStart /\ BondStart /\ DupireStart /\ StratStart /\ AmerStart /\ GspStart /\ AccStart

SpecBarrier == BarrierInit /\ [][BarrierNext]_vars

AggInit == AggStart /\ BarrierStart /\ HestonStart /\ MCStart /\ CallStart /\ ProcStart /\ ProdStart /\ CalStart /\ LoadStart /\ ConvStart /\ SwapStart /\ BondStart /\ DupireStart /\ StratStart /\ AmerStart /\ GspStart /\ AccStart

SpecAggregate == AggInit /\ [][AggNext]_vars

HestonInit == HestonStart /\ BarrierStart /\ AggStart /\ MCStart /\ CallStart /\ ProcStart /\ ProdStart /\ CalStart /\ LoadStart /\ ConvStart /\ SwapStart /\ BondStart /\ DupireStart /\ StratStart /\ AmerStart /\ GspStart /\ AccStart

SpecHeston == HestonInit /\ [][HestonNext]_vars

MCInit ==
    /\ \E mkt \in Markets, stg \in EngineSettings : MCEngine(mkt, stg)
    /\ BarrierStart /\ AggStart /\ HestonStart /\ CallStart /\ ProcStart /\ ProdStart /\ CalStart /\ LoadStart /\ ConvStart /\ SwapStart /\ BondStart /\ DupireStart /\ StratStart /\ AmerStart /\ GspStart /\ AccStart

SpecMC == MCInit /\ [][MCNext]_vars

CallInit ==
    /\ \E mkt \in Markets, stg \in CallableSettings : MCEngine(mkt, stg)
    /\ CallStart
    /\ BarrierStart /\ AggStart /\ HestonStart /\ ProcStart /\ ProdStart /\ CalStart /\ LoadStart /\ ConvStart /\ SwapStart /\ BondStart /\ DupireStart /\ StratStart /\ AmerStart /\ GspStart /\ AccStart

SpecCallable == CallInit /\ [][CallNext]_vars

\* a step of the callable engine can be taken: a call can start, get_results
\* is about to price, or get_coupon is in or just after its loop
CallEnabled == cpc \in {"idle", "price"} \/ (cpc = "coupon" /\ iter <= max_iter)

\* the engine's calls run to their return: weak fairness of CallNext, written
\* out with CallEnabled, the condition under which CallNext can take a step
SpecCallableLive ==
    SpecCallable /\ ([]<>~CallEnabled \/ []<><<CallNext>>_vars)

ProcInit ==
    /\ ProcStart
    /\ BarrierStart /\ AggStart /\ HestonStart /\ MCStart /\ CallStart /\ ProdStart /\ CalStart /\ LoadStart /\ ConvStart /\ SwapStart /\ BondStart /\ DupireStart /\ StratStart /\ AmerStart /\ GspStart /\ AccStart

SpecProcess == ProcInit /\ [][ProcNext]_vars

ProdInit ==
    /\ ProdStart
    /\ BarrierStart /\ AggStart /\ HestonStart /\ MCStart /\ CallStart /\ ProcStart /\ CalStart /\ LoadStart /\ ConvStart /\ SwapStart /\ BondStart /\ DupireStart /\ StratStart /\ AmerStart /\ GspStart /\ AccStart

SpecProducts == ProdInit /\ [][ProdNext]_vars

\* option data with 1..MaxSlices distinct maturities
CalInit ==
    /\ interp = None
    /\ svi = SVI_init
    /\ ssvi = SSVI_init
    /\ local = None
    /\ nb_slices \in 1..MaxSlices
    /\ cal_round = 0
    /\ completed = [interp |-> FALSE, svi |-> FALSE, ssvi |-> FALSE]
    /\ svi_failed = FALSE
    /\ last_call = NoCall
    /\ BarrierStart /\ AggStart /\ HestonStart /\ MCStart /\ CallStart
    /\ ProcStart /\ ProdStart /\ LoadStart /\ ConvStart /\ SwapStart /\ BondStart /\ DupireStart /\ StratStart /\ AmerStart /\ GspStart /\ AccStart

SpecCalibration == CalInit /\ [][CalNext]_vars

LoadInit ==
    /\ load = None
    /\ BarrierStart /\ AggStart /\ HestonStart /\ MCStart /\ CallStart
    /\ ProcStart /\ ProdStart /\ CalStart /\ ConvStart /\ SwapStart /\ BondStart /\ DupireStart /\ StratStart /\ AmerStart /\ GspStart /\ AccStart

SpecLoaders == LoadInit /\ [][LoadNext]_vars

ConvInit ==
    /\ ConvStart
    /\ BarrierStart /\ AggStart /\ HestonStart /\ MCStart /\ CallStart
    /\ ProcStart /\ ProdStart /\ CalStart /\ LoadStart /\ SwapStart /\ BondStart /\ DupireStart /\ StratStart /\ AmerStart /\ GspStart /\ AccStart

SpecConvert == ConvInit /\ [][ConvNext]_vars

SwapInit ==
    /\ SwapStart
    /\ BarrierStart /\ AggStart /\ HestonStart /\ MCStart /\ CallStart
    /\ ProcStart /\ ProdStart /\ CalStart /\ LoadStart /\ ConvStart /\ BondStart /\ DupireStart /\ StratStart /\ AmerStart /\ GspStart /\ AccStart

SpecSwap == SwapInit /\ [][SwapNext]_vars

BondInit ==
    /\ BondStart
    /\ BarrierStart /\ AggStart /\ HestonStart /\ MCStart /\ CallStart
    /\ ProcStart /\ ProdStart /\ CalStart /\ LoadStart /\ ConvStart /\ SwapStart /\ DupireStart /\ StratStart /\ AmerStart /\ GspStart /\ AccStart

SpecBond == BondInit /\ [][BondNext]_vars

DupireInit ==
    /\ DupireStart
    /\ BarrierStart /\ AggStart /\ HestonStart /\ MCStart /\ CallStart
    /\ ProcStart /\ ProdStart /\ CalStart /\ LoadStart /\ ConvStart /\ SwapStart
    /\ BondStart /\ StratStart /\ AmerStart /\ GspStart /\ AccStart

SpecDupire == DupireInit /\ [][DupireNext]_vars

StratInit ==
    /\ StratStart
    /\ BarrierStart /\ AggStart /\ HestonStart /\ MCStart /\ CallStart
    /\ ProcStart /\ ProdStart /\ CalStart /\ LoadStart /\ ConvStart /\ SwapStart
    /\ BondStart /\ DupireStart /\ AmerStart /\ GspStart /\ AccStart

SpecStrategies == StratInit /\ [][StratNext]_vars

AmerInit ==
    /\ AmerStart
    /\ BarrierStart /\ AggStart /\ HestonStart /\ MCStart /\ CallStart
    /\ ProcStart /\ ProdStart /\ CalStart /\ LoadStart /\ ConvStart /\ SwapStart
    /\ BondStart /\ DupireStart /\ StratStart /\ GspStart /\ AccStart

SpecAmerican == AmerInit /\ [][AmerNext]_vars

GspInit ==
    /\ \E mkt \in Markets, stg \in GspSettings : MCEngine(mkt, stg)
    /\ GspStart
    /\ BarrierStart /\ AggStart /\ HestonStart /\ CallStart
    /\ ProcStart /\ ProdStart /\ CalStart /\ LoadStart /\ ConvStart /\ SwapStart
    /\ BondStart /\ DupireStart /\ StratStart /\ AmerStart /\ AccStart

SpecGetProcess == GspInit /\ [][GspNext]_vars

AccInit ==
    /\ AccStart
    /\ BarrierStart /\ AggStart /\ HestonStart /\ MCStart /\ CallStart
    /\ ProcStart /\ ProdStart /\ CalStart /\ LoadStart /\ ConvStart /\ SwapStart
    /\ BondStart /\ DupireStart /\ StratStart /\ AmerStart /\ GspStart

SpecAccrued == AccInit /\ [][AccNext]_vars

(***************************************************************************)
(* Claims                                                                  *)
(***************************************************************************)
\* a knock-in option and the knock-out option of the same direction, type,
\* strike and barrier
Siblings(i, o) ==
    /\ i.cls \in InClasses
    /\ o.cls \notin InClasses
    /\ (i.cls \in UpClasses) = (o.cls \in UpClasses)
    /\ (i.cls \in CallClasses) = (o.cls \in CallClasses)
    /\ i.strike = o.strike
    /\ i.barrier = o.barrier

EvaluatedSiblings(a, b) ==
    /\ options[a] # None /\ options[b] # None
    /\ payoffs[a] # None /\ payoffs[b] # None
    /\ Siblings(Get(options[a]), Get(options[b]))

\* C8: on every path, for every strike and barrier the constructors accept,
\* the knock-in and the knock-out payoff of the same type sum exactly to the
\* vanilla payoff, and one of the two is the vanilla payoff while the other
\* is 0 (the barrier test selects exactly one of the pair).
C8_BarrierDecomposition ==
    \A a \in Slots, b \in Slots :
        EvaluatedSiblings(a, b) =>
            LET i == Get(options[a])
                v == vanilla_payoff(i.cls \in CallClasses, i.strike, path)
            IN  /\ Get(payoffs[a]) + Get(payoffs[b]) = v
                /\ \/ Get(payoffs[a]) = v /\ Get(payoffs[b]) = 0
                   \/ Get(payoffs[a]) = 0 /\ Get(payoffs[b]) = v

\* an evaluated up-and-in / up-and-out call pair on a breaching path that
\* ends in the money, and a down pair on a path that never breaches
C8_Witness ==
    \E a \in Slots, b \in Slots :
        /\ EvaluatedSiblings(a, b)
        /\ Get(options[a]).cls = "UpAndInCallOption"
        /\ is_barrier_breached(Get(options[a]), path)
        /\ Get(payoffs[a]) > 0
        /\ Get(payoffs[b]) = 0

Carriers(k) == {i \in DOMAIN Get(results_in) : k \in DOMAIN Get(results_in)[i].greeks}

\* C10: get_aggregated_results returns the sum of the legs' prices, for each
\* Greek name the sum of that Greek over the legs that carry it (and no other
\* name), and as std_dev the arithmetic mean of the legs' std_devs, None when
\* no leg has one; the list it was given is left as it was.
C10_AggregationAdditive ==
    aggregated # None =>
        LET rs == Get(results_in)
            agg == Get(aggregated)
            priced == {i \in DOMAIN rs : rs[i].price # None}
            withStd == {i \in DOMAIN rs : rs[i].std_dev # None}
            sds == StdDevs(rs)
        IN  /\ agg.price = Some(SumPrices(rs))
            /\ (priced = DOMAIN rs /\ Len(rs) = 2) =>
                   Get(agg.price) = Get(rs[1].price) + Get(rs[2].price)
            /\ DOMAIN agg.greeks = GreekKeys(rs)
            /\ \A k \in DOMAIN agg.greeks :
                   /\ Carriers(k) # {}
                   /\ agg.greeks[k] = SumGreek(rs, k)
                   /\ Cardinality(Carriers(k)) = 1 =>
                          \E i \in Carriers(k) : agg.greeks[k] = rs[i].greeks[k]
            /\ (withStd = {}) = (agg.std_dev = None)
            /\ withStd # {} =>
                   LET m == Get(agg.std_dev)
                       t == RatSum(sds)
                   IN  m.num * t.den * Cardinality(withStd) = t.num * m.den
            /\ results = rs

\* two legs, both priced, only one with a std_dev, both carrying delta and one
\* carrying vega, have been aggregated
C10_Witness ==
    /\ aggregated # None
    /\ Len(results) = 2
    /\ results[1].price # None /\ results[2].price # None
    /\ results[1].std_dev # None /\ results[2].std_dev = None
    /\ DOMAIN results[1].greeks = {"delta"}
    /\ DOMAIN results[2].greeks = {"delta", "vega"}


\* C7: every variance the Heston Euler schemes store, for every path and
\* every time step, is >= 0.
C7_VarianceNonNegative ==
    /\ ~nan
    /\ \A p \in DOMAIN V_paths : \A k \in DOMAIN V_paths[p] : V_paths[p][k] >= 0


\* the five inputs of a pricing run
SameInputs(a, b) ==
    /\ a.market = b.market
    /\ a.derivative = b.derivative
    /\ a.process = b.process
    /\ a.nb_paths = b.nb_paths
    /\ a.seed = b.seed

C3_ShortNegatesLong ==
    mpc = "done" =>
        \A i \in DOMAIN strat_results, j \in DOMAIN strat_results :
            LET legs == Legs(Get(derivative))
            IN  (legs[i][1] = legs[j][1] /\ legs[i][2] /\ ~legs[j][2]) =>
                    /\ Get(strat_results[j].price) = -Get(strat_results[i].price)
                    /\ \A g \in GreekNames :
                           strat_results[j].greeks[g] = -strat_results[i].greeks[g]

\* C9: when the engine was built with compute_greeks False, get_results made
\* one pricing run per leg and returns a result without Greeks.
C9_NoGreeksWhenDisabled ==
    (mpc = "done" /\ ~settings.enable_greeks) =>
        /\ DOMAIN Get(mc_result).greeks = {}
        /\ Len(runs) = Len(Legs(Get(derivative)))


\* C4: every path's cashflow is multiplied by the discount factor at t / f
\* years, t being the call index the payoff reports for the path and f the
\* observation frequency.
C4_DiscountAtCallDate ==
    \A k \in DOMAIN cashflows :
        cashflows[k].discount_factor =
            Market_get_discount_factor(market,
                Div(12 * cashflows[k].t_call, settings.obs_frequency))

\* C5: the product repriced with the coupon get_coupon returned has a price
\* within epsilon of the target price.
C5_CouponHitsTarget ==
    (cpc = "done" /\ settings.compute_coupon) =>
        Abs(get_price([Get(product) EXCEPT
                          !.coupon_rate = Get(Get(call_result).coupon_callable)],
                      Get(stochastic_process)).price
            - target_price) < epsilon

\* a midpoint whose price is within epsilon of the target
WithinEpsilon(t) == Abs(t.price - target_price) < epsilon

C6_Safety ==
    /\ iter = Len(tried)
    /\ Len(tried) <= max_iter
    /\ \A k \in DOMAIN tried :
           /\ 0 < tried[k].coupon
           /\ tried[k].coupon < 50 * CouponScale
           /\ WithinEpsilon(tried[k]) =>
                  /\ k = Len(tried)
                  /\ cpc = "done"
                  /\ Get(call_result).coupon_callable = Some(tried[k].coupon)
    /\ (cpc = "done" /\ settings.compute_coupon) =>
           /\ tried # <<>>
           /\ Get(call_result).coupon_callable = Some(Last(tried).coupon)
           /\ WithinEpsilon(Last(tried)) \/ Len(tried) = max_iter

C11_ProcessValidated ==
    proc_args # None =>
        /\ (Get(proc_args).nb_steps <= 0 \/ Get(proc_args).T <= 0) =>
               /\ proc = None
               /\ proc_error = Some("ValueError")
        /\ proc # None =>
               /\ Get(proc).nb_steps > 0
               /\ Get(proc).dt > 0
               /\ Get(proc).dt * Get(proc).nb_steps = Get(proc).T


\* the configurations C12 names as invalid
InvalidProduct(a) ==
    \/ a.maturity <= 0
    \/ a.cls \in UpClasses /\ a.barrier <= a.strike
    \/ a.cls \in DownClasses /\ a.barrier >= a.strike

\* C12: a constructor call with maturity <= 0, an up barrier <= strike or a
\* down barrier >= strike raises ValueError and yields no object, and a
\* constructed product holds the arguments it was given.
C12_InvalidProductRejected ==
    prod_args # None =>
        /\ InvalidProduct(Get(prod_args)) =>
               /\ prod = None
               /\ prod_error = Some("ValueError")
        /\ prod # None => prod = prod_args

\* C13: a query (interpolate of a rate interpolator, get_volatility of the SVI
\* or the SSVI surface) made while no calibration of the object has returned
\* normally raises an exception and returns no value; for the SSVI surface
\* that covers the state where only the ATM stage has run.
Queries == {"interpolate", "svi_get_volatility", "ssvi_get_volatility"}

C14_FailedCalibrationUnusable ==
    /\ (last_call.op = "svi_calibrate" /\ last_call.raised # "") =>
           /\ last_call.maturity # None
           /\ ~svi.is_calibrated
           /\ SVI_get_volatility(svi).raised # ""
    /\ (last_call.op = "local_init" /\ last_call.before) => last_call.triggered

\* C15: a loader whose input table lacks columns it requires raises ValueError,
\* the message lists exactly the missing names, and nothing has been done to
\* the table by then.  The option file is in wide format: the column its
\* loader requires of the input table is Maturity, Strike and Implied
\* Volatility being made by the melt.
input_required(loader) ==
    IF loader = "option" THEN <<"Maturity">> ELSE required_columns(loader)

input_missing(loader, columns) ==
    SelectSeq(input_required(loader), LAMBDA col : col \notin columns)

C15_MissingColumnsFailFast ==
    (load # None /\ input_missing(Get(load).loader, Get(load).columns) # <<>>) =>
        /\ Get(load).raised = "ValueError"
        /\ Get(load).missing = input_missing(Get(load).loader, Get(load).columns)
        /\ Get(load).done = <<>>

\* C16: _convert_maturities maps a string of one or more digits n followed by
\* exactly one unit letter, and nothing else, to n/52 for W, n/12 for M and n
\* for Y, and raises ValueError for every other string.
ExactForm(s) ==
    /\ Len(s) >= 2
    /\ \A i \in 1..(Len(s) - 1) : s[i] \in Digits
    /\ s[Len(s)] \in Units

C16_ConvertMaturities ==
    maturity_str # None =>
        IF ExactForm(Get(maturity_str))
        THEN /\ Get(converted).raised = ""
             /\ Get(converted).num = int(SubSeq(Get(maturity_str), 1, Len(Get(maturity_str)) - 1))
             /\ Get(converted).den =
                    (CASE Get(maturity_str)[Len(Get(maturity_str))] = "W" -> 52
                       [] Get(maturity_str)[Len(Get(maturity_str))] = "M" -> 12
                       [] Get(maturity_str)[Len(Get(maturity_str))] = "Y" -> 1)
        ELSE Get(converted).raised = "ValueError"

\* C17: a calculate at a valuation date from the emission to the maturity
\* that returns, returns as price float_leg_value() - fixed_leg_value() at
\* that date for the fixed rate in force; and when the swap had no fixed rate
\* the rate in force is the par rate and that difference is zero.
C17_SwapPriceIsLegsDifference ==
    (swap_ret # None /\ Get(swap_ret).raised = "" /\ Get(Get(swap).date) <= Get(swap).end) =>
        /\ RatEq(Get(swap_ret).price, legs_difference(Get(swap)))
        /\ ~Get(swap_ret).rate_given =>
               /\ par_rate(Get(swap)).raised = ""
               /\ RatEq(Get(swap_ret).fixed_rate, par_rate(Get(swap)).rate)
               /\ legs_difference(Get(swap)).num = 0

\* C18: for a CouponBond constructed from a price, a calculate that returns,
\* returns a yield at which present_value reproduces the price within the
\* tolerance of the root finder (the value is met, or crossed within one step
\* of the yield grid); and when no yield of the search interval does so, the
\* call raises.
Reproduces(b, y) ==
    \/ bond_present_value(b, y) = Get(b.price)
    \/ /\ y < YtmHi
       /\ (bond_present_value(b, y) - Get(b.price))
            * (bond_present_value(b, y + 1) - Get(b.price)) < 0
    \/ /\ y > YtmLo
       /\ (bond_present_value(b, y - 1) - Get(b.price))
            * (bond_present_value(b, y) - Get(b.price)) < 0

C18_YtmReproducesPrice ==
    (bond_ret # None /\ Get(bond_ret).from_price) =>
        /\ Get(bond_ret).raised = "" =>
               /\ Get(bond_ret).ytm \in YtmLo..YtmHi
               /\ Reproduces(Get(bond), Get(bond_ret).ytm)
        /\ (\A y \in YtmLo..YtmHi : ~Reproduces(Get(bond), y)) =>
               Get(bond_ret).raised = "ValueError"

\* a bond bought under par on a coupon date: the yield found is above the coupon
C18_Witness ==
    /\ bond_ret # None
    /\ Get(bond_ret).from_price
    /\ Get(bond_ret).raised = ""
    /\ Get(bond).price = Some(950)
    /\ Get(bond).coupon_rate = 5
    /\ Get(bond_ret).ytm > 5

\* C19: get_volatility hands the caller a finite value that is not negative:
\* 0 when the Dupire ratio is negative, and never inf or nan when the
\* denominator is zero; and par_rate raises ZeroDivisionError on a swap whose
\* annuity is zero.
C19_EdgeCasesGuarded ==
    /\ dupire_ret # None =>
           /\ Get(dupire_ret).kind = "finite"
           /\ Get(dupire_ret).v >= 0
           /\ (/\ dupire_denominator(Get(dupire_args)) # 0
               /\ dupire_numerator(Get(dupire_args))
                    * dupire_denominator(Get(dupire_args)) < 0)
                  => Get(dupire_ret) = Finite(0)
    /\ (swap # None /\ Get(swap).date # None /\ get_annuities(Get(swap)) = 0) =>
           par_rate(Get(swap)).raised = "ZeroDivisionError"

\* C20: with a the second and b the third positional argument and S_T the
\* last price of the path, Strangle(maturity, a, b) long on both legs pays
\* max(0, S_T - a) + max(0, b - S_T), and Collar(maturity, a, b) short the
\* call and long the put pays -max(0, S_T - a) + max(0, b - S_T).
C20_StrategyPayoffsAsTested ==
    strat_payoff # None =>
        /\ (/\ Get(strat).args.cls = "Strangle"
            /\ Get(strat).args.position_call
            /\ Get(strat).args.position_put) =>
               Get(strat_payoff).value =
                   Max(0, Last(Get(strat_payoff).path) - Get(strat).args.second)
                   + Max(0, Get(strat).args.third - Last(Get(strat_payoff).path))
        /\ (/\ Get(strat).args.cls = "Collar"
            /\ ~Get(strat).args.position_call
            /\ Get(strat).args.position_put) =>
               Get(strat_payoff).value =
                   Max(0, Get(strat).args.third - Last(Get(strat_payoff).path))
                   - Max(0, Last(Get(strat_payoff).path) - Get(strat).args.second)

\* the indices before the maturity, last first
RECURSIVE Decreasing(_)
Decreasing(n) == IF n < 0 THEN <<>> ELSE <<n>> \o Decreasing(n - 1)

\* C21: when _get_price returns, an exercise decision has been made at every
\* index 0 .. nb_steps - 1 of an American option, and at every index derived
\* from the exercise times of a Bermudan one and at no other, each once and
\* in strictly decreasing order.
C21_DecisionAtEveryExerciseIndex ==
    lsm_pc = "done" =>
        LET run == Get(lsm)
            indices ==
                exercise_indices(run.derivative,
                                 Div(run.derivative.maturity, run.nb_steps))
        IN  /\ \A i \in 1 .. Len(decided) - 1 : decided[i] > decided[i + 1]
            /\ {decided[i] : i \in DOMAIN decided} =
                   IF indices = None
                   THEN 0 .. run.nb_steps - 1
                   ELSE Get(indices)

\* the steps between time 0 and column t, last applied first or in any order
StepsUpTo(dt, t) == {<<dt * i, dt * (i + 1)>> : i \in 0 .. t - 1}

\* C22: in the final mean, the cashflow of every path is discounted over
\* exactly the steps between time 0 and the column it was taken at: t steps
\* for an exercise at column t, nb_steps steps for the maturity cashflow.
C22_DiscountedFromOwnExerciseTime ==
    lsm_pc = "done" =>
        LET run == Get(lsm)
            dt == Div(run.derivative.maturity, run.nb_steps)
        IN  \A p \in DOMAIN CF :
                /\ Len(CF[p].intervals) = CF[p].column
                /\ {CF[p].intervals[i] : i \in DOMAIN CF[p].intervals} =
                       StepsUpTo(dt, CF[p].column)

\* the performance of the k-th simulated path at the observation dates, the
\* first entry being the start
observed(k) ==
    normalised(Get(product),
               simulate_paths(Get(stochastic_process), settings.nb_paths,
                              settings.random_seed).paths[k])

\* C23: the call index of every path is in 1..N, N = maturity x observation
\* frequency: it is the first observation t >= 1 at or above the autocall
\* barrier, and N for a path that is never autocalled, whose cashflow holds at
\* most the N coupons of a path called at the final observation.
C23_CallIndexIsAnObservation ==
    \A k \in DOMAIN cashflows :
        LET d == Get(product)
            N == Div(d.maturity * d.observation_frequency, 12)
            called == {t \in 1 .. N : observed(k)[t + 1] >= d.autocall_barrier}
        IN  /\ cashflows[k].t_call \in 1 .. N
            /\ called # {} =>
                   /\ cashflows[k].t_call \in called
                   /\ \A t \in called : cashflows[k].t_call <= t
            /\ called = {} => cashflows[k].t_call = N
            /\ cashflows[k].payoff <= 100 * CouponScale + N * d.coupon_rate

\* max(V[p, i - 1], 0): the variance of path p at column k, floored at zero
own_floor(p, k) == Max(V_paths[p][k], 0)

\* C24: every value HestonEulerScheme.simulate_paths stores for path p at
\* step i is the update of path p's previous values with the floored
\* variance max(V[p, i - 1], 0) of that same path, so it depends on no
\* other path.
C24_FloorIsThePathsOwn ==
    (scheme # None /\ Get(scheme).cls = "HestonEulerScheme") =>
        /\ ~nan
        /\ \A p \in DOMAIN V_paths : \A k \in 1 .. Len(V_paths[p]) - 1 :
               LET process == Get(scheme).process
                   e == Div(process.drift * process.dt, 12)
                        - Div(own_floor(p, k) * process.dt, 24)
                        + ISqrt(own_floor(p, k)) * W[1][p][k]
               IN  /\ S_paths[p][k + 1] = Div(S_paths[p][k] * Exp(e), 10000)
                   /\ V_paths[p][k + 1] =
                          V_paths[p][k]
                          + Div(process.kappa * (process.theta - own_floor(p, k))
                                * process.dt, 12)
                          + Div(process.ksi * ISqrt(own_floor(p, k)) * W[2][p][k],
                                100)

\* a process object, as opposed to Python's None
IsProcess(v) == DOMAIN v # {}

\* C25: for every instrument without a strike value (no strike attribute, or
\* strike = None) the volatility is looked up at K = the market spot, and
\* under every model the call raises or returns a process, never None.
C25_SpotForMissingStrike ==
    gsp # None =>
        LET c == Get(gsp)
        IN  /\ ("strike" \notin DOMAIN c.derivative \/ c.derivative.strike = None) =>
                   c.K = Some(market.underlying_asset.last_price)
            /\ c.raised # None \/ IsProcess(c.returned)

\* the price of the product repriced with the coupon c on the engine's process
price_at(c) ==
    get_price([Get(product) EXCEPT !.coupon_rate = c], Get(stochastic_process)).price

\* the k-th of the coupons a bisection of [0, 50] of at most MaxIter
\* iterations can reach
CouponGrid(k) == k * Div(50 * CouponScale, 2 ^ MaxIter)

\* the target lies in (price(0), price(50)] and the repriced value is
\* non-decreasing in the coupon, from each coupon of the grid to the next
Bracketed ==
    /\ price_at(0) < target_price
    /\ target_price <= price_at(50 * CouponScale)
    /\ \A k \in 0 .. 2 ^ MaxIter - 1 :
           price_at(CouponGrid(k)) <= price_at(CouponGrid(k + 1))

\* C26: when the price is non-decreasing in the coupon and
\* price(0) < target <= price(50), every iteration of get_coupon starts with
\* 0 <= lower_bound < upper_bound <= 50 and
\* price(lower_bound) < target <= price(upper_bound), each iteration halves
\* upper_bound - lower_bound, and the returned coupon is inside the bracket.
C26_BracketKept ==
    (settings.compute_coupon /\ cpc \in {"coupon", "done"}) =>
        \/ /\ 0 <= lower_bound
           /\ lower_bound < upper_bound
           /\ upper_bound <= 50 * CouponScale
           /\ price_at(lower_bound) < target_price
           /\ target_price <= price_at(upper_bound)
           /\ cpc = "coupon" =>
                  (upper_bound - lower_bound) * 2 ^ iter = 50 * CouponScale
           /\ cpc = "done" =>
                  /\ lower_bound <= Get(Get(call_result).coupon_callable)
                  /\ Get(Get(call_result).coupon_callable) <= upper_bound
        \/ ~Bracketed

\* get_coupon has moved both ends of a bracket around the target and returned
C26_Witness ==
    /\ settings.compute_coupon
    /\ cpc = "done"
    /\ 0 < lower_bound
    /\ upper_bound < 50 * CouponScale
    /\ Len(tried) >= 3
    /\ Bracketed

\* the fields of the product other than coupon_rate
OtherFields(d) == [f \in DOMAIN d \ {"coupon_rate"} |-> d[f]]

\* a step of get_coupon leaves the process, the seed and the other settings,
\* the Market and every field of the product but coupon_rate as they were,
\* and when it returns the product's coupon_rate is the returned coupon
CouponStepFrame ==
    cpc = "coupon" =>
        /\ stochastic_process' = stochastic_process
        /\ settings' = settings
        /\ market' = market
        /\ OtherFields(Get(product')) = OtherFields(Get(product))
        /\ simulate_paths(Get(stochastic_process'), settings'.nb_paths,
                          settings'.random_seed)
               = simulate_paths(Get(stochastic_process), settings.nb_paths,
                                settings.random_seed)
        /\ cpc' = "done" =>
               Get(product').coupon_rate = Get(Get(call_result').coupon_callable)

\* C27: get_coupon changes nothing but the coupon_rate of the product it is
\* given: every step keeps the engine's process, seed and Market, so every
\* repricing runs on the same paths, and on return, by convergence or after
\* max_iter iterations, the product's coupon_rate is the returned coupon.
C27_OnlyCouponRateChanges == [][CouponStepFrame]_vars

\* get_coupon returned after max_iter iterations without a price within
\* epsilon, and the product holds the last midpoint
C27_Witness ==
    /\ settings.compute_coupon
    /\ cpc = "done"
    /\ Len(tried) >= 2
    /\ iter = max_iter
    /\ ~WithinEpsilon(Last(tried))
    /\ Get(product).coupon_rate = Last(tried).coupon
    /\ Get(call_result).coupon_callable = Some(Last(tried).coupon)

\* C28: on a swap built with a fixed rate and no price, the price every
\* calculate returns is present_value() at that call's valuation date,
\* whatever calls came before it.
C28_PriceOfTheLastCall ==
    (/\ swap_ret # None
     /\ Get(swap_ret).raised = ""
     /\ Get(swap_args).fixed_rate # None
     /\ Get(swap_args).price = None) =>
        RatEq(Get(swap_ret).price, swap_present_value(Get(swap)))

\* the whole schedule of the swap, from the first payment date to the end
full_schedule(sw) == payment_dates_from(sw.start + sw.interval, sw.interval, sw.end)

\* the scheduled payment date before d, the emission before the first one
preceding(sw, d) ==
    LET before == {sw.start} \cup
                  {full_schedule(sw)[i] : i \in {j \in DOMAIN full_schedule(sw) :
                                                     full_schedule(sw)[j] < d}}
    IN  CHOOSE m \in before : \A b \in before : b <= m

\* C29: after a calculate at any valuation date, the year fraction of every
\* remaining payment date d in get_annuities and float_leg_value is measured
\* from the scheduled payment date immediately before d (the emission for
\* the first one) to d: one payment period.
C29_AccrualOverOnePeriod ==
    (swap # None /\ Get(swap).date # None) =>
        \A k \in DOMAIN accrual_periods(Get(swap)) :
            accrual_periods(Get(swap))[k][1]
                = preceding(Get(swap), accrual_periods(Get(swap))[k][2])

\* C30: at every valuation date from the emission to the maturity, under
\* every convention, accrued_interest() is a fraction f with 0 <= f <= 1 and
\* every discounting time (1 - f) + i / frequency is >= 0.
C30_AccruedFractionInUnitInterval ==
    accrued # None =>
        /\ 0 <= Get(accrued).f.num
        /\ Get(accrued).f.num <= Get(accrued).f.den
        /\ \A i \in DOMAIN Get(accrued).times : Get(accrued).times[i] >= 0

=============================================================================
